---- MODULE Spec2Model ----
(***************************************************************************)
(* Hybrid tool-discovery and ranking engine of mcpproxy's Python agent:    *)
(* the two vector collections of SemanticSearchTools (mcp_tools,           *)
(* mcp_servers), the indexing entry points, the semantic and hybrid        *)
(* retrieval functions, and the LangGraph workflow of SemanticSearchAgent. *)
(*                                                                         *)
(* Conventions.                                                            *)
(*  - A Python float is an exact rational [num, den] in lowest terms.      *)
(*  - A text is a sequence of tokens; string concatenation is \o.          *)
(*  - A Chroma collection is a bag of records, each with an `id`.          *)
(*  - The sentence-transformer model and the collection's distance are     *)
(*    external; they are modelled by a fixed deterministic function of     *)
(*    the text (Embed) and a squared distance (Distance).                  *)
(***************************************************************************)
EXTENDS Integers, Sequences, FiniteSets, Bags, TLC

VARIABLES
    toolsIndex,     \* self.tools_collection   (mcp_tools)
    serversIndex,   \* self.servers_collection (mcp_servers)
    pc,             \* the workflow node about to run for the request in flight
    request,        \* the SearchRequest passed to SemanticSearchAgent.search
    st,             \* the SemanticSearchState of the request in flight
    response,       \* the SearchResponse returned by the search
    produced,       \* history: whether the retrieval node's strategy raised, and the
                    \* candidates as the node wrote them
    lastCall,       \* history: the client's last direct call of a SemanticSearchTools
                    \* method, with its arguments and what it returned
    runs,           \* the searches in flight in the API process, which share the
                    \* thread "default": for each its node, request, state,
                    \* response and (history) what its retrieval strategy answered
    checkpoint,     \* the state the checkpointer holds for thread "default"
    messages,       \* the conversation history passed to prune_conversation_history
    max_tokens,     \* self.max_tokens of the ContextPruner
    pruned,         \* the history prune_conversation_history returned
    pruneDone,      \* prune_conversation_history has returned
    node,           \* the node of MCPAgentGraph's workflow about to run
    agentInput,     \* the AgentInput passed to MCPAgentGraph.run
    agentState,     \* the AgentState of the run
    nodesRun        \* history: the nodes the run has executed, in order

vars == <<toolsIndex, serversIndex, pc, request, st, response, produced, lastCall,
          runs, checkpoint, messages, max_tokens, pruned, pruneDone,
          node, agentInput, agentState, nodesRun>>
managerVars == <<node, agentInput, agentState, nodesRun>>
agentVars == <<pc, request, st, response, produced>>
serverVars == <<runs, checkpoint>>
prunerVars == <<messages, max_tokens, pruned, pruneDone>>

----------------------------------------------------------------------------
(* Bounds of the model *)

\* longest catalog returned by /api/tools/list in one sync
MaxCatalog == 2
\* longest list returned by /api/tools/search (the lexical collaborator)
MaxKeyword == 2
\* largest positive limit of a request
MaxLimit == 3
\* longest conversation history passed to prune_conversation_history
MaxMessages == 8
\* most fixes diagnostic_tools.suggest_fixes returns
MaxFixes == 2

----------------------------------------------------------------------------
(* Exact rationals for Python floats *)

Abs(x) == IF x < 0 THEN -x ELSE x

Min(a, b) == IF a <= b THEN a ELSE b

Max(a, b) == IF a >= b THEN a ELSE b

RECURSIVE GCD(_, _)
GCD(a, b) == IF b = 0 THEN a ELSE GCD(b, a % b)

Rat(n, d) ==
    LET s == IF d < 0 THEN -1 ELSE 1
        g == GCD(Abs(n), Abs(d))
    IN  [num |-> (s * n) \div g, den |-> (s * d) \div g]

Zero == Rat(0, 1)
One == Rat(1, 1)

RAdd(a, b) == Rat(a.num * b.den + b.num * a.den, a.den * b.den)
RSub(a, b) == Rat(a.num * b.den - b.num * a.den, a.den * b.den)
RMul(a, b) == Rat(a.num * b.num, a.den * b.den)
RLess(a, b) == a.num * b.den < b.num * a.den
RLeq(a, b) == a.num * b.den <= b.num * a.den
RMax(a, b) == IF RLess(a, b) THEN b ELSE a

----------------------------------------------------------------------------
(* Sequences *)

Range(s) == {s[i] : i \in 1..Len(s)}

SeqsUpTo(S, n) == UNION {[1..k -> S] : k \in 0..n}

Reverse(s) == [i \in 1..Len(s) |-> s[Len(s) + 1 - i]]

\* s[:n] of Python for n >= 0
Take(s, n) == SubSeq(s, 1, Min(n, Len(s)))

\* Python's list.sort(key=lambda x: x.final_score, reverse=True): a stable sort,
\* descending by final_score. InsertDesc puts x behind every element whose
\* final_score is not smaller than x's.
RECURSIVE InsertDesc(_, _)
InsertDesc(s, x) ==
    IF s = <<>> THEN <<x>>
    ELSE IF RLess(s[Len(s)].final_score, x.final_score)
         THEN Append(InsertDesc(SubSeq(s, 1, Len(s) - 1), x), s[Len(s)])
         ELSE Append(s, x)

RECURSIVE SortDesc(_)
SortDesc(s) ==
    IF s = <<>> THEN <<>>
    ELSE InsertDesc(SortDesc(SubSeq(s, 1, Len(s) - 1)), s[Len(s)])

----------------------------------------------------------------------------
(* Texts and the embedding model *)

RECURSIVE Join(_, _)
\* sep.join(parts) for a list of one-token strings
Join(parts, sep) ==
    IF Len(parts) = 0 THEN <<>>
    ELSE IF Len(parts) = 1 THEN <<parts[1]>>
    ELSE <<parts[1], sep>> \o Join(Tail(parts), sep)

\* The position each token gives a text in the model's (one-dimensional)
\* embedding space; tokens not listed carry no meaning.
TokenCode(t) ==
    CASE t = "create" -> 1
      [] t = "issue" -> 1
      [] t = "search" -> 2
      [] t = "code" -> 1
      [] t = "write" -> 3
      [] t = "file" -> 2
      [] t = "tracking" -> 1
      [] t = "filesystem" -> 1
      [] t = "for" -> 2
      [] OTHER -> 0

RECURSIVE SumCodes(_)
SumCodes(text) == IF text = <<>> THEN 0 ELSE TokenCode(Head(text)) + SumCodes(Tail(text))

\* self.embedding_model.encode(text): deterministic in the text
Embed(text) == SumCodes(text) % 4

\* the collection's distance between two embeddings (squared L2, in tenths)
Distance(e1, e2) == Rat(2 * (e1 - e2) * (e1 - e2), 10)

\* _generate_embedding
GenerateEmbedding(text) == Embed(text)

----------------------------------------------------------------------------
(* The inputs of the model *)

\* ServerSummary values passed to index_server_summary
ServerSummaries ==
    { [server_name |-> "github", summary |-> <<"issue", "tracking">>,
       capabilities |-> <<"issue", "code">>, typical_use_cases |-> <<>>],
      [server_name |-> "filesystem", summary |-> <<"file", "write">>,
       capabilities |-> <<"file">>, typical_use_cases |-> <<"write">>] }

NoSchema == [has_properties |-> FALSE, properties |-> <<>>]

\* entries of the aggregator's tool catalog (GET /api/tools/list); a missing
\* "name" reads as "" (tool.get("name", ""))
ValidEntries ==
    { [name |-> "github:create_issue", server |-> "github",
       description |-> <<"create", "issue">>,
       inputSchema |-> [has_properties |-> TRUE, properties |-> <<"title", "body">>]],
      [name |-> "github:search_code", server |-> "github",
       description |-> <<"search", "code">>, inputSchema |-> NoSchema],
      [name |-> "filesystem:write_file", server |-> "filesystem",
       description |-> <<"write", "file">>,
       inputSchema |-> [has_properties |-> TRUE, properties |-> <<"path">>]] }

\* the tools a caller passes to index_tool: those of the catalog and one of a
\* server that has no summary
IndexedEntries ==
    ValidEntries \cup
    { [name |-> "database:run_query", server |-> "database",
       description |-> <<"run", "query">>, inputSchema |-> NoSchema] }

CatalogEntries ==
    ValidEntries \cup
    { [name |-> "", server |-> "github", description |-> <<"search", "code">>,
       inputSchema |-> NoSchema] }

\* query texts
Queries == { <<"create", "issue">>, <<"Which", "server", "for", "file">> }

\* str.lower() on a token
LowerToken(t) ==
    CASE t = "Which" -> "which"
      [] t = "Error" -> "error"
      [] t = "Debug" -> "debug"
      [] t = "Check" -> "check"
      [] t = "Configure" -> "configure"
      [] t = "Install" -> "install"
      [] t = "Status" -> "status"
      [] OTHER -> t

\* faulty variant of Lower: the text as it is
LowerKeepingCase(text) == text

Lower(text) == [i \in 1..Len(text) |-> LowerToken(text[i])]

\* `phrase in text` of Python: a contiguous occurrence
Contains(text, phrase) ==
    \E i \in 0..(Len(text) - Len(phrase)) :
        \A j \in 1..Len(phrase) : text[i + j] = phrase[j]

----------------------------------------------------------------------------
(* Chroma collections *)

NoContext == <<>>

Size(coll) == BagCardinality(coll)

Ids(coll) == {r.id : r \in BagToSet(coll)}

\* faulty variant of Upsert: the record is added beside the one of the same id
UpsertAdd(coll, rec) == coll (+) SetToBag({rec})

\* collection.upsert(ids=[id], ...): replaces the record of that id, or adds it
Upsert(coll, rec) ==
    LET keep == {r \in BagToSet(coll) : r.id # rec.id}
    IN  [r \in keep |-> coll[r]] (+) SetToBag({rec})

\* collection.get(ids=[id], include=["documents"])["documents"]
GetDocuments(coll, id) ==
    LET found == {r \in BagToSet(coll) : r.id = id}
    IN  IF found = {} THEN <<>> ELSE <<(CHOOSE r \in found : TRUE).document>>

\* collection.query(query_embeddings=[e], n_results=n): the n nearest records,
\* ascending by distance. The order of records at equal distance is not
\* specified: every order is a possible result. (n <= 0 raises; see the callers.)
QueryResults(coll, e, n) ==
    LET recs == BagToSet(coll)
        k == Min(n, Cardinality(recs))
        d(r) == Distance(e, r.embedding)
    IN  { [i \in 1..k |->
             [id |-> s[i].id, distance |-> d(s[i]), metadata |-> s[i].metadata]] :
          s \in { t \in [1..k -> recs] :
                    /\ \A i, j \in 1..k : i < j => t[i] # t[j] /\ RLeq(d(t[i]), d(t[j]))
                    /\ \A r \in recs \ Range(t) : \A i \in 1..k : RLeq(d(t[i]), d(r)) } }

----------------------------------------------------------------------------
(* SemanticSearchTools: indexing *)

\* the searchable text index_server_summary builds
ServerText(summary) ==
    <<"Server:", summary.server_name, "Summary:">> \o summary.summary
    \o <<"Capabilities:">> \o Join(summary.capabilities, ",")
    \o <<"Use Cases:">> \o Join(summary.typical_use_cases, ",")

ServerRecord(summary) ==
    [id |-> summary.server_name,
     document |-> ServerText(summary),
     embedding |-> GenerateEmbedding(ServerText(summary)),
     metadata |-> [server_name |-> summary.server_name,
                   summary |-> summary.summary,
                   capabilities |-> Join(summary.capabilities, ","),
                   use_cases |-> Join(summary.typical_use_cases, ",")]]

\* the searchable text index_tool builds
ToolText(tool_name, server_name, description, input_schema, server_context) ==
    <<"Tool:", tool_name, "Server:", server_name, "Description:">> \o description
    \o (IF server_context # NoContext
        THEN <<"Server Context:">> \o server_context ELSE <<>>)
    \o (IF input_schema.has_properties
        THEN <<"Parameters:">> \o Join(input_schema.properties, ",") ELSE <<>>)

ToolRecord(tool_name, server_name, description, input_schema, server_context) ==
    LET text == ToolText(tool_name, server_name, description, input_schema, server_context)
    IN  [id |-> tool_name,
         document |-> text,
         embedding |-> GenerateEmbedding(text),
         metadata |-> [tool_name |-> tool_name,
                       server_name |-> server_name,
                       description |-> description,
                       has_server_context |-> server_context # NoContext]]

\* index_tool, when the embedding and the upsert succeed
IndexToolResult(coll, tool_name, server_name, description, input_schema, server_context) ==
    Upsert(coll, ToolRecord(tool_name, server_name, description, input_schema, server_context))

\* index_server_summary
IndexServerSummary(summary) ==
    /\ serversIndex' = Upsert(serversIndex, ServerRecord(summary))
    /\ UNCHANGED toolsIndex

\* index_tool; `fails` is the embedding model or the collection raising
IndexTool(entry, server_context, fails) ==
    /\ toolsIndex' =
         IF fails THEN toolsIndex
         ELSE IndexToolResult(toolsIndex, entry.name, entry.server, entry.description,
                              entry.inputSchema, server_context)
    /\ UNCHANGED serversIndex

\* the loop of sync_from_mcpproxy from catalog position i on. failAt is the
\* position whose index_tool call raises (0: none); with ctxFails the calls of
\* servers_collection.get raise, which the loop answers with no context. The result is the tool collection
\* and the value sync_from_mcpproxy returns.
RECURSIVE SyncLoop(_, _, _, _, _, _, _)
SyncLoop(coll, servers, catalog, i, failAt, ctxFails, indexed_count) ==
    IF i > Len(catalog) THEN [index |-> coll, value |-> indexed_count]
    ELSE LET tool == catalog[i]
         IN  IF tool.name = "" \/ tool.server = ""
             THEN SyncLoop(coll, servers, catalog, i + 1, failAt, ctxFails, indexed_count)
             ELSE LET docs == IF ctxFails THEN <<>>
                              ELSE GetDocuments(servers, tool.server)
                      server_context == IF docs # <<>> THEN docs[1] ELSE NoContext
                  IN  IF i = failAt
                      THEN [index |-> coll, value |-> 0]
                      ELSE SyncLoop(
                               IndexToolResult(coll, tool.name, tool.server,
                                               tool.description, tool.inputSchema,
                                               server_context),
                               servers, catalog, i + 1, failAt, ctxFails,
                               indexed_count + 1)

\* faulty variant of SyncResult: a resync that first drops what the collection held
SyncResultReplacing(coll, servers, fetchOk, catalog, failAt, ctxFails) ==
    IF ~fetchOk THEN [index |-> coll, value |-> 0]
    ELSE SyncLoop(EmptyBag, servers, catalog, 1, failAt, ctxFails, 0)

\* sync_from_mcpproxy as a function of its inputs; fetchOk is the GET of
\* /api/tools/list succeeding
SyncResult(coll, servers, fetchOk, catalog, failAt, ctxFails) ==
    IF ~fetchOk THEN [index |-> coll, value |-> 0]
    ELSE SyncLoop(coll, servers, catalog, 1, failAt, ctxFails, 0)

\* sync_from_mcpproxy
SyncFromMcpproxy(fetchOk, catalog, failAt, ctxFails) ==
    /\ toolsIndex' =
         SyncResult(toolsIndex, serversIndex, fetchOk, catalog, failAt, ctxFails).index
    /\ UNCHANGED serversIndex

Catalogs == SeqsUpTo(CatalogEntries, MaxCatalog)

----------------------------------------------------------------------------
(* SemanticSearchTools: retrieval *)

\* n_results=min(limit * 3, 50) of semantic_search
OverFetch == 3
MaxFetch == 50
\* top_k of the server query in semantic_search
ServerTopK == 5

SimilarityWeight == Rat(7, 10)
ContextWeight == Rat(3, 10)

\* faulty variant of Similarity: not clamped at 0
SimilarityUnclamped(distance) == RSub(One, distance)

\* max(0, 1 - distance)
Similarity(distance) == RMax(Zero, RSub(One, distance))

\* _get_server_context from the hits of the server query: the dict
\* server id -> similarity, as its items in insertion order
GetServerContext(server_hits) ==
    [i \in 1..Len(server_hits) |->
        [name |-> server_hits[i].id, score |-> Similarity(server_hits[i].distance)]]

\* faulty variant of ScoreOf: an unknown server counts as half relevant
ScoreOfDefaultHalf(server_scores, server_name) ==
    IF \E i \in 1..Len(server_scores) : server_scores[i].name = server_name
    THEN server_scores[CHOOSE i \in 1..Len(server_scores) :
                           server_scores[i].name = server_name].score
    ELSE Rat(1, 2)

\* server_scores.get(server_name, 0.0)
ScoreOf(server_scores, server_name) ==
    IF \E i \in 1..Len(server_scores) : server_scores[i].name = server_name
    THEN server_scores[CHOOSE i \in 1..Len(server_scores) :
                           server_scores[i].name = server_name].score
    ELSE Zero

\* sorted(server_scores.items(), key=lambda x: x[1], reverse=True): stable
RECURSIVE InsertScoreDesc(_, _)
InsertScoreDesc(s, x) ==
    IF s = <<>> THEN <<x>>
    ELSE IF RLess(s[Len(s)].score, x.score)
         THEN Append(InsertScoreDesc(SubSeq(s, 1, Len(s) - 1), x), s[Len(s)])
         ELSE Append(s, x)

RECURSIVE SortScoresDesc(_)
SortScoresDesc(s) ==
    IF s = <<>> THEN <<>>
    ELSE InsertScoreDesc(SortScoresDesc(SubSeq(s, 1, Len(s) - 1)), s[Len(s)])

NoReasoning == [kind |-> "", high |-> FALSE, semantic |-> Zero, keyword |-> Zero, rank |-> 0]

\* faulty variant of SemanticCandidate: the two scores are weighted the other
\* way round
SemanticCandidateSwapped(hit, server_scores, include_reasoning) ==
    LET similarity_score == Similarity(hit.distance)
        context_score == ScoreOf(server_scores, hit.metadata.server_name)
        final_score == RAdd(RMul(ContextWeight, similarity_score),
                            RMul(SimilarityWeight, context_score))
    IN  [tool_name |-> hit.id,
         server_name |-> hit.metadata.server_name,
         description |-> hit.metadata.description,
         similarity_score |-> similarity_score,
         context_score |-> context_score,
         final_score |-> final_score,
         reasoning |-> IF include_reasoning
                       THEN [NoReasoning EXCEPT !.kind = "Similarity",
                                                !.high = RLess(Rat(1, 2), context_score)]
                       ELSE NoReasoning]

\* the ToolCandidate semantic_search builds from one hit of the tool query
SemanticCandidate(hit, server_scores, include_reasoning) ==
    LET similarity_score == Similarity(hit.distance)
        context_score == ScoreOf(server_scores, hit.metadata.server_name)
        final_score == RAdd(RMul(SimilarityWeight, similarity_score),
                            RMul(ContextWeight, context_score))
    IN  [tool_name |-> hit.id,
         server_name |-> hit.metadata.server_name,
         description |-> hit.metadata.description,
         similarity_score |-> similarity_score,
         context_score |-> context_score,
         final_score |-> final_score,
         reasoning |-> IF include_reasoning
                       THEN [NoReasoning EXCEPT !.kind = "Similarity",
                                                !.high = RLess(Rat(1, 2), context_score)]
                       ELSE NoReasoning]

\* faulty variant of TopCandidates: the candidates are not cut to the limit
TopCandidatesAll(candidates, limit) == candidates

\* candidates[:limit] of semantic_search
TopCandidates(candidates, limit) == Take(candidates, limit)

\* semantic_search from the hits of its two queries
SemanticSearchFrom(query, limit, include_reasoning, server_hits, tool_hits) ==
    LET server_scores == GetServerContext(server_hits)
        ids == << [i \in 1..Len(tool_hits) |-> tool_hits[i].id] >>
        candidates == SortDesc([i \in 1..Len(tool_hits) |->
                          SemanticCandidate(tool_hits[i], server_scores, include_reasoning)])
        top_candidates == TopCandidates(candidates, limit)
        top_servers == Take(SortScoresDesc(server_scores), 3)
    IN  IF ids = <<>>
        THEN [query |-> query, tools |-> <<>>, total |-> 0,
              reasoning |-> [kind |-> "No tools found matching the query"]]
        ELSE [query |-> query, tools |-> top_candidates, total |-> Len(top_candidates),
              reasoning |-> [kind |-> "Found", candidates |-> Len(candidates),
                             selected |-> Len(top_candidates),
                             prioritized |-> [i \in 1..Len(top_servers) |->
                                                 top_servers[i].name]]]

NoResult == [query |-> <<>>, tools |-> <<>>, total |-> 0, reasoning |-> [kind |-> ""]]

\* faulty variant of SemanticSearchOutcomes: the tool collection is asked for
\* `limit` hits only
SemanticSearchOutcomesNarrow(query, limit, include_reasoning) ==
    LET e == GenerateEmbedding(query)
    IN  {[raised |-> TRUE, result |-> NoResult, server_hits |-> <<>>, tool_hits |-> <<>>]} \cup
        (IF limit <= 0 THEN {}
         ELSE {[raised |-> FALSE,
                result |-> SemanticSearchFrom(query, limit, include_reasoning, sh, th),
                server_hits |-> sh, tool_hits |-> th] :
               sh \in QueryResults(serversIndex, e, ServerTopK),
               th \in QueryResults(toolsIndex, e, limit)})

\* what a call of semantic_search can do: raise (the embedding model or a
\* collection fails; Chroma rejects n_results <= 0), or return the result
\* for one of the possible answers of the two collections. `server_hits` and
\* `tool_hits` keep the answers the result was computed from.
SemanticSearchOutcomes(query, limit, include_reasoning) ==
    LET e == GenerateEmbedding(query)
        n == Min(limit * OverFetch, MaxFetch)
    IN  {[raised |-> TRUE, result |-> NoResult, server_hits |-> <<>>, tool_hits |-> <<>>]} \cup
        (IF n <= 0 THEN {}
         ELSE {[raised |-> FALSE,
                result |-> SemanticSearchFrom(query, limit, include_reasoning, sh, th),
                server_hits |-> sh, tool_hits |-> th] :
               sh \in QueryResults(serversIndex, e, ServerTopK),
               th \in QueryResults(toolsIndex, e, n)})

\* faulty variant of DictSet: the entry is added whether or not the key is there
DictSetAppend(d, entry) == Append(d, entry)

\* tool_scores[name] = entry on a dict kept as its items in insertion order
DictSet(d, entry) ==
    IF \E i \in 1..Len(d) : d[i].name = entry.name
    THEN [i \in 1..Len(d) |-> IF d[i].name = entry.name THEN entry ELSE d[i]]
    ELSE Append(d, entry)

DictHas(d, name) == \E i \in 1..Len(d) : d[i].name = name

DictGet(d, name) == d[CHOOSE i \in 1..Len(d) : d[i].name = name]

\* faulty variant of RankScore: the position is counted from 1
RankScoreOneBased(i, n) == RSub(One, Rat(i + 1, n))

\* 1.0 - (i / n) for the 0-based position i of a list of length n
RankScore(i, n) == RSub(One, Rat(i, n))

\* the first loop of hybrid_search, over semantic_results.tools from position k on
RECURSIVE AddSemanticScores(_, _, _, _)
AddSemanticScores(d, tools, k, semantic_weight) ==
    IF k > Len(tools) THEN d
    ELSE AddSemanticScores(
             DictSet(d, [name |-> tools[k].tool_name,
                         semantic |-> RMul(RMul(tools[k].final_score,
                                                RankScore(k - 1, Len(tools))),
                                           semantic_weight),
                         keyword |-> Zero,
                         tool |-> tools[k]]),
             tools, k + 1, semantic_weight)

\* the second loop of hybrid_search, over keyword_tools from position k on
RECURSIVE AddKeywordScores(_, _, _, _)
AddKeywordScores(d, keyword_tools, k, keyword_weight) ==
    IF k > Len(keyword_tools) THEN d
    ELSE LET tool == keyword_tools[k]
             rank_score == RankScore(k - 1, Len(keyword_tools))
             score == RMul(rank_score, keyword_weight)
         IN  AddKeywordScores(
                 IF DictHas(d, tool.name)
                 THEN DictSet(d, [DictGet(d, tool.name) EXCEPT !.keyword = score])
                 ELSE DictSet(d, [name |-> tool.name,
                                  semantic |-> Zero,
                                  keyword |-> score,
                                  tool |-> [tool_name |-> tool.name,
                                            server_name |-> tool.server,
                                            description |-> tool.description,
                                            similarity_score |-> Zero,
                                            context_score |-> Zero,
                                            final_score |-> score,
                                            reasoning |-> [NoReasoning EXCEPT
                                                              !.kind = "From keyword search",
                                                              !.rank = k]]]),
                 keyword_tools, k + 1, keyword_weight)

\* faulty variant of CombinedTool: the larger of the two scores, not their sum
CombinedToolMax(scores) ==
    [scores.tool EXCEPT
        !.final_score = RMax(scores.semantic, scores.keyword),
        !.reasoning = [NoReasoning EXCEPT !.kind = "Hybrid",
                                          !.semantic = scores.semantic,
                                          !.keyword = scores.keyword]]

\* the tool of one tool_scores entry with its combined score
CombinedTool(scores) ==
    [scores.tool EXCEPT
        !.final_score = RAdd(scores.semantic, scores.keyword),
        !.reasoning = [NoReasoning EXCEPT !.kind = "Hybrid",
                                          !.semantic = scores.semantic,
                                          !.keyword = scores.keyword]]

\* final_results.sort(...); final_results[:limit]
HybridRank(final_results, limit) == Take(SortDesc(final_results), limit)

\* faulty variant of KeywordWeight: the keyword list is weighted like the semantic one
KeywordWeightSame(semantic_weight) == semantic_weight

\* keyword_weight = 1.0 - semantic_weight
KeywordWeight(semantic_weight) == RSub(One, semantic_weight)

\* hybrid_search from the semantic result and the keyword list
HybridSearchFrom(query, limit, semantic_weight, semantic_tools, keyword_tools) ==
    LET keyword_weight == KeywordWeight(semantic_weight)
        tool_scores == AddKeywordScores(
                           AddSemanticScores(<<>>, semantic_tools, 1, semantic_weight),
                           keyword_tools, 1, keyword_weight)
        final_results == HybridRank([i \in 1..Len(tool_scores) |->
                                        CombinedTool(tool_scores[i])], limit)
    IN  [query |-> query, tools |-> final_results, total |-> Len(final_results),
         reasoning |-> [kind |-> "Hybrid search", semantic |-> Len(semantic_tools),
                        keyword |-> Len(keyword_tools)]]

\* the "tools" of the lexical collaborator's answer (GET /api/tools/search)
KeywordLists == SeqsUpTo(CatalogEntries, MaxKeyword)

\* faulty variant of HybridSearchOutcomes: a failed keyword search fails the call
HybridSearchOutcomesRaising(query, limit, semantic_weight) ==
    {[raised |-> TRUE, result |-> NoResult, semantic |-> <<>>, keyword |-> <<>>,
      keyword_failed |-> failed] : failed \in BOOLEAN} \cup
    {[raised |-> FALSE,
      result |-> HybridSearchFrom(query, limit, semantic_weight, sem.result.tools, l),
      semantic |-> sem.result.tools, keyword |-> l, keyword_failed |-> FALSE] :
     sem \in {o \in SemanticSearchOutcomes(query, limit, TRUE) : ~o.raised},
     l \in KeywordLists}

\* what a call of hybrid_search can do. A failed keyword search is answered
\* like an empty keyword list. `semantic` and `keyword` keep the two lists
\* the result was merged from.
HybridSearchOutcomes(query, limit, semantic_weight) ==
    {[raised |-> TRUE, result |-> NoResult, semantic |-> <<>>, keyword |-> <<>>,
      keyword_failed |-> FALSE]} \cup
    {[raised |-> FALSE,
      result |-> HybridSearchFrom(query, limit, semantic_weight, sem.result.tools, kw.tools),
      semantic |-> sem.result.tools, keyword |-> kw.tools, keyword_failed |-> kw.failed] :
     sem \in {o \in SemanticSearchOutcomes(query, limit, TRUE) : ~o.raised},
     kw \in {[failed |-> TRUE, tools |-> <<>>]} \cup
            {[failed |-> FALSE, tools |-> l] : l \in KeywordLists}}

----------------------------------------------------------------------------
(* SemanticSearchAgent: the workflow *)

\* defaults _analyze_query fills in
DefaultLimit == 15
DefaultWeight == Rat(6, 10)

NoError == "None"

ContextIndicators ==
    { <<"which", "server">>, <<"which", "one">>, <<"best", "for">>, <<"recommend">>,
      <<"github", "or">>, <<"filesystem", "or">>, <<"database", "or">> }

\* _analyze_query
AnalyzeQuery(state) ==
    LET query == Lower(state.user_query)
        s1 == IF \E indicator \in ContextIndicators : Contains(query, indicator)
              THEN [state EXCEPT !.search_mode = "context_aware"] ELSE state
        s2 == IF s1.limit = 0 THEN [s1 EXCEPT !.limit = DefaultLimit] ELSE s1
        s3 == IF s2.semantic_weight = Zero
              THEN [s2 EXCEPT !.semantic_weight = DefaultWeight] ELSE s2
    IN  s3

\* faulty variant of RouteSearchMode: a hybrid request is handed to
\* rerank_results without retrieval
RouteSearchModeDirect(state) ==
    IF state.error # NoError THEN "end"
    ELSE IF state.search_mode = "semantic" THEN "semantic_search"
    ELSE IF state.search_mode = "context_aware" THEN "context_aware_search"
    ELSE "rerank_results"

\* _route_search_mode and the conditional edges of analyze_query
RouteSearchMode(state) ==
    IF state.error # NoError THEN "end"
    ELSE IF state.search_mode = "semantic" THEN "semantic_search"
    ELSE IF state.search_mode = "hybrid" THEN "hybrid_search"
    ELSE IF state.search_mode = "context_aware" THEN "context_aware_search"
    ELSE "hybrid_search"

\* faulty variant of SemanticSearchState: a failure empties the candidates but is not recorded
SemanticSearchStateSilent(state, o) ==
    IF o.raised
    THEN [state EXCEPT !.candidates = <<>>]
    ELSE [state EXCEPT !.candidates = o.result.tools, !.reasoning = o.result.reasoning]

\* _semantic_search for one outcome of semantic_tools.semantic_search
SemanticSearchState(state, o) ==
    IF o.raised
    THEN [state EXCEPT !.error = "Semantic search failed", !.candidates = <<>>]
    ELSE [state EXCEPT !.candidates = o.result.tools, !.reasoning = o.result.reasoning]

\* _hybrid_search for one outcome of semantic_tools.hybrid_search
HybridSearchState(state, o) ==
    IF o.raised
    THEN [state EXCEPT !.error = "Hybrid search failed", !.candidates = <<>>]
    ELSE [state EXCEPT !.candidates = o.result.tools, !.reasoning = o.result.reasoning]

\* server_tools of _context_aware_search: the candidates grouped by server,
\* as the dict's items in insertion order
RECURSIVE GroupByServer(_, _, _)
GroupByServer(d, candidates, k) ==
    IF k > Len(candidates) THEN d
    ELSE LET server == candidates[k].server_name
         IN  GroupByServer(
                 IF DictHas(d, server)
                 THEN DictSet(d, [DictGet(d, server) EXCEPT
                                     !.tools = Append(@, candidates[k])])
                 ELSE DictSet(d, [name |-> server, tools |-> <<candidates[k]>>]),
                 candidates, k + 1)

RECURSIVE SumContext(_)
\* sum(t.context_score for t in tools)
SumContext(tools) ==
    IF tools = <<>> THEN Zero ELSE RAdd(tools[1].context_score, SumContext(Tail(tools)))

\* faulty variant of BestServer: the server of the highest average context_score
BestServerByAverage(server_tools) ==
    LET Avg(tools) == RMul(SumContext(tools), Rat(1, Len(tools)))
    IN  server_tools[CHOOSE i \in 1..Len(server_tools) :
            /\ \A j \in 1..Len(server_tools) :
                  RLeq(Avg(server_tools[j].tools), Avg(server_tools[i].tools))
            /\ \A j \in 1..(i - 1) :
                  RLess(Avg(server_tools[j].tools), Avg(server_tools[i].tools))
        ].name

\* max(server_tools.items(), key=<sum of context_score>)[0]: the first item
\* whose key is maximal
BestServer(server_tools) ==
    server_tools[CHOOSE i \in 1..Len(server_tools) :
        /\ \A j \in 1..Len(server_tools) :
              RLeq(SumContext(server_tools[j].tools), SumContext(server_tools[i].tools))
        /\ \A j \in 1..(i - 1) :
              RLess(SumContext(server_tools[j].tools), SumContext(server_tools[i].tools))
    ].name

\* candidates[:state["limit"]] of _context_aware_search
ContextCandidates(candidates, limit) == Take(candidates, limit)

\* _context_aware_search for one outcome of semantic_tools.semantic_search
ContextAwareSearchState(state, o) ==
    IF o.raised
    THEN [state EXCEPT !.error = "Context-aware search failed", !.candidates = <<>>]
    ELSE LET candidates == o.result.tools
             server_tools == GroupByServer(<<>>, candidates, 1)
             analysed == Len(server_tools) > 1
         IN  [state EXCEPT
                 !.candidates = ContextCandidates(candidates, state.limit),
                 !.reasoning =
                     [kind |-> "Context",
                      semantic |-> o.result.reasoning,
                      analysis |-> IF analysed
                                   THEN [i \in 1..Len(server_tools) |->
                                           [server |-> server_tools[i].name,
                                            tools |-> Len(server_tools[i].tools),
                                            avg |-> RMul(SumContext(server_tools[i].tools),
                                                         Rat(1, Len(server_tools[i].tools)))]]
                                   ELSE <<>>,
                      recommendation |-> IF analysed THEN BestServer(server_tools)
                                         ELSE ""]]

\* faulty variant of RerankResults: sorted ascending and then reversed, which turns
\* the order of equal scores around
RerankResultsReversed(state) ==
    LET candidates == SortDesc(Reverse(state.candidates))
    IN  [state EXCEPT !.candidates = candidates, !.selected_tools = candidates]

\* _rerank_results: candidates.sort(...) sorts the list in place, and
\* selected_tools is that same list
RerankResults(state) ==
    LET candidates == SortDesc(state.candidates)
    IN  [state EXCEPT !.candidates = candidates, !.selected_tools = candidates]

\* _finalize
Finalize(state) == [state EXCEPT !.completed = TRUE]

\* initial_state of search
InitialState(req) ==
    [user_query |-> req.query, search_mode |-> req.mode, limit |-> req.limit,
     include_reasoning |-> req.include_reasoning,
     semantic_weight |-> req.semantic_weight,
     candidates |-> <<>>, selected_tools |-> <<>>, reasoning |-> [kind |-> ""],
     completed |-> FALSE, error |-> NoError]

\* the SearchResponse search builds from the final state
BuildResponse(final_state) ==
    [tools |-> final_state.selected_tools,
     total |-> Len(final_state.selected_tools),
     reasoning |-> final_state.reasoning,
     mode |-> final_state.search_mode]

\* the response of search for a request when the workflow starts from
\* initial_state alone and semantic_tools answers the retrieval node with `o`
ResponseFor(req, o) ==
    LET analysed == AnalyzeQuery(InitialState(req))
        retrieved ==
            CASE analysed.search_mode = "semantic" -> SemanticSearchState(analysed, o)
              [] analysed.search_mode = "hybrid" -> HybridSearchState(analysed, o)
              [] OTHER -> ContextAwareSearchState(analysed, o)
    IN  BuildResponse(Finalize(RerankResults(retrieved)))

\* thread "default" before its first search: nothing is checkpointed
NoCheckpoint == <<>>

\* faulty variant of MergeInput: a key whose input value is None is not written,
\* so the checkpointed error stays
MergeInputKeepingError(saved, input) ==
    [k \in (DOMAIN saved) \cup (DOMAIN input) |->
        IF k \in DOMAIN input /\ ~(k = "error" /\ k \in DOMAIN saved /\ input[k] = NoError)
        THEN input[k] ELSE saved[k]]

\* graph.ainvoke(initial_state, config) on a thread with a checkpoint: the
\* values of the input are written over the checkpointed values of their keys
MergeInput(saved, input) ==
    [k \in (DOMAIN saved) \cup (DOMAIN input) |->
        IF k \in DOMAIN input THEN input[k] ELSE saved[k]]

----------------------------------------------------------------------------
(* ContextPruner (context_pruning.py) *)

MAX_TOKENS == 100000
SYSTEM_MESSAGE_TOKENS == 1000
RECENT_MESSAGE_COUNT == 5

\* a token that stands for 4000 characters of text
Filler == "<4000 characters>"

\* len() of a word of a content
Width(token) == IF token = Filler THEN 4000 ELSE Len(token)

RECURSIVE SumWidths(_)
SumWidths(content) ==
    IF content = <<>> THEN 0 ELSE Width(Head(content)) + SumWidths(Tail(content))

\* len(content): the words and the blanks between them
CharCount(content) ==
    IF content = <<>> THEN 0 ELSE SumWidths(content) + Len(content) - 1

\* _estimate_tokens
EstimateTokens(message) == Max((CharCount(message.content) \div 4) + 5, 10)

RECURSIVE SumTokens(_)
\* sum() of the token estimates of a list of messages
SumTokens(msgs) ==
    IF msgs = <<>> THEN 0 ELSE EstimateTokens(Head(msgs)) + SumTokens(Tail(msgs))

\* _is_system_message
IsSystemMessage(message) == message.role = "system"

ImportantKeywords ==
    {"error", "failed", "warning", "critical", "configuration", "config", "server",
     "status", "changed", "updated"}

\* _is_important_message
IsImportantMessage(message) ==
    \E i \in 1..Len(message.content) : Lower(message.content)[i] \in ImportantKeywords

\* the loop of _filter_important_messages from position i on: the important
\* messages that fit, up to the first important one that does not
RECURSIVE FilterLoop(_, _, _, _, _)
FilterLoop(msgs, i, available_tokens, important, current_tokens) ==
    IF i > Len(msgs) THEN important
    ELSE IF IsImportantMessage(msgs[i])
         THEN IF current_tokens + EstimateTokens(msgs[i]) <= available_tokens
              THEN FilterLoop(msgs, i + 1, available_tokens, Append(important, msgs[i]),
                              current_tokens + EstimateTokens(msgs[i]))
              ELSE important
         ELSE FilterLoop(msgs, i + 1, available_tokens, important, current_tokens)

\* _filter_important_messages
FilterImportantMessages(msgs, available_tokens) ==
    FilterLoop(msgs, 1, available_tokens, <<>>, 0)

\* _create_summary
CreateSummary(skipped_count) ==
    [role |-> "assistant",
     content |-> <<"[Context", "summary:", ToString(skipped_count), "older", "messages",
                   "omitted", "to", "manage", "context", "size]">>]

\* messages[a:b] of Python for 0 <= a: the elements at 0-based a .. b-1
Slice(s, a, b) == SubSeq(s, a + 1, Min(b, Len(s)))

\* prune_conversation_history
PruneConversationHistory(msgs, limit) ==
    IF msgs = <<>> THEN <<>>
    ELSE IF SumTokens(msgs) <= limit THEN msgs
    ELSE
      LET kept_system == IF IsSystemMessage(msgs[1]) THEN <<msgs[1]>> ELSE <<>>
          current_tokens == SumTokens(kept_system)
          recent_start_idx == Max(1, Len(msgs) - RECENT_MESSAGE_COUNT)
          recent == Slice(msgs, recent_start_idx, Len(msgs))
          available_for_middle ==
              limit - current_tokens - SumTokens(recent) - SYSTEM_MESSAGE_TOKENS
          middle_messages == Slice(msgs, 1, recent_start_idx)
          important_middle == FilterImportantMessages(middle_messages, available_for_middle)
          middle ==
              IF recent_start_idx > 1
              THEN IF SumTokens(middle_messages) <= available_for_middle
                   THEN middle_messages
                   ELSE important_middle \o
                        (IF Len(important_middle) < Len(middle_messages)
                         THEN <<CreateSummary(Len(middle_messages) - Len(important_middle))>>
                         ELSE <<>>)
              ELSE <<>>
      IN  kept_system \o middle \o recent

----------------------------------------------------------------------------
(* MCPAgentGraph (agent_graph.py): the node functions, the routers and the  *)
(* edges of the workflow _build_graph defines                               *)

\* Python's None
None == "None"

\* AgentInput(request, server_name, auto_approve)
AgentInputs ==
    [request : { <<"Debug", "test-server">>,
                 <<"Debug", "server", "github">>,
                 <<"Check", "for", "github,">>,
                 <<"Configure", "server", "github">>,
                 <<"Install", "server", "github">>,
                 <<"Status", "for", "filesystem">> },
     server_name : {None, "test-server", "github"},
     auto_approve : BOOLEAN]

NoInput == [request |-> <<>>, server_name |-> None, auto_approve |-> FALSE]

\* any(word in request for word in words), for one-word routing words.
\* `word in request` is a substring test on the whole text: KeywordsIn(t) are
\* the routing words that stand inside the word t of a request
HasAny(req, words) ==
    LET KeywordsIn(t) ==
            CASE t = "debug" -> {"debug"}
              [] t = "test-server" -> {"test"}
              [] t = "check" -> {"check"}
              [] t = "configure" -> {"configure", "config"}
              [] t = "install" -> {"install"}
              [] OTHER -> {}
    IN  \E i \in 1..Len(req) : KeywordsIn(req[i]) \cap words # {}

\* _extract_server_name: the word after the first "server" or "for" that has
\* a word after it, stripped of ",.:;"
ExtractServerName(req) ==
    LET hits == {i \in 1..Len(req) : req[i] \in {"server", "for"} /\ i + 1 <= Len(req)}
        Strip(t) == IF t = "github," THEN "github" ELSE t
    IN  IF hits = {} THEN None
        ELSE Strip(req[(CHOOSE i \in hits : \A j \in hits : i <= j) + 1])

\* initial_state of run
InitialAgentState(input) ==
    [user_request |-> input.request,
     current_task |-> "",
     task_type |-> "diagnose",
     target_server |-> input.server_name,
     server_status |-> None,
     diagnostic_results |-> None,
     test_results |-> None,
     config_changes |-> None,
     suggested_fixes |-> <<>>,
     requires_approval |-> FALSE,
     approval_granted |-> input.auto_approve,
     error |-> None,
     completed |-> FALSE]

\* _analyze_request
AnalyzeRequest(state) ==
    LET req == Lower(state.user_request)
        routed ==
            IF HasAny(req, {"debug", "diagnose", "error", "failing"})
            THEN [task_type |-> "diagnose", current_task |-> "Diagnosing server issues"]
            ELSE IF HasAny(req, {"test", "check", "validate"})
            THEN [task_type |-> "test", current_task |-> "Testing server functionality"]
            ELSE IF HasAny(req, {"configure", "config", "settings"})
            THEN [task_type |-> "configure", current_task |-> "Managing configuration"]
            ELSE IF HasAny(req, {"install", "add"}) \/ Contains(req, <<"new", "server">>)
            THEN [task_type |-> "install", current_task |-> "Installing new server"]
            ELSE [task_type |-> "monitor", current_task |-> "Monitoring server status"]
    IN  [state EXCEPT !.task_type = routed.task_type,
                      !.current_task = routed.current_task,
                      !.target_server = ExtractServerName(req)]

\* `not state["target_server"]`
NoTarget(state) == state.target_server \in {None, ""}

\* the lists of Fix diagnostic_tools.suggest_fixes can return
FixLists ==
    SeqsUpTo({[fix_type |-> "authentication", requires_approval |-> b] : b \in BOOLEAN},
             MaxFixes)

\* _suggest_fixes for the fixes the diagnostic tools return
SuggestFixes(state, fixes) ==
    [state EXCEPT !.suggested_fixes = fixes,
                  !.requires_approval =
                      \E i \in 1..Len(fixes) : fixes[i].requires_approval]

\* _route_after_analysis and the conditional edges of analyze_request
RouteAfterAnalysis(state) ==
    IF NoTarget(state) THEN "END"
    ELSE IF state.task_type = "diagnose" THEN "check_server_status"
    ELSE IF state.task_type = "test" THEN "test"
    ELSE IF state.task_type = "configure" THEN "configure"
    ELSE IF state.task_type = "install" THEN "install"
    ELSE "check_server_status"

\* faulty variant of CheckApprovalNeeded: fixes are executed whether or not they
\* require approval
CheckApprovalNeededNever(state) ==
    IF state.suggested_fixes = <<>> THEN "report" ELSE "execute_fixes"

\* _check_approval_needed and the conditional edges of suggest_fixes
CheckApprovalNeeded(state) ==
    IF state.suggested_fixes = <<>> THEN "report"
    ELSE IF state.requires_approval THEN "await_approval"
    ELSE "execute_fixes"

----------------------------------------------------------------------------
(* The requests of the model *)

Modes == {"semantic", "hybrid", "context_aware"}

\* limits: a negative one, 0 (read as unset), and the positive ones
Limits == {-1, 0} \cup (1..MaxLimit)

\* semantic weights: the two edges, one inside and one outside [0, 1]
Weights == {Zero, Rat(1, 2), One, Rat(3, 2)}

\* SearchRequest values. A parameter the requested mode's strategy does not
\* read keeps the default of SearchRequest.
Requests ==
    { r \in [query : Queries, mode : Modes, limit : Limits,
             include_reasoning : BOOLEAN, semantic_weight : Weights \cup {DefaultWeight}] :
        /\ r.mode = "hybrid" => r.semantic_weight \in Weights
        /\ r.mode # "hybrid" => r.semantic_weight = DefaultWeight
        /\ r.mode # "semantic" => r.include_reasoning }

----------------------------------------------------------------------------
(* The system: one client calling SemanticSearchTools and                  *)
(* SemanticSearchAgent, one call at a time                                 *)

NoCall == [op |-> "none"]

NoRequest == [query |-> <<>>, mode |-> "hybrid", limit |-> 0,
              include_reasoning |-> TRUE, semantic_weight |-> DefaultWeight]

NoProduced == [raised |-> FALSE, candidates |-> <<>>, retrieved |-> <<>>,
               keyword_failed |-> FALSE]

NoResponse == [tools |-> <<>>, total |-> 0, reasoning |-> [kind |-> ""], mode |-> ""]

\* the searches the API process can have in flight at once
Runs == {"first", "second"}

\* of a run (history): `answered`, `expected`: its retrieval strategy has
\* run, and the response that the request and the strategy's answer
\* determine; `over`: the search started over a checkpoint that held an error

\* a slot of the API process with no search in it
IdleRun == [pc |-> "idle", request |-> NoRequest, st |-> InitialState(NoRequest),
            response |-> NoResponse, answered |-> FALSE, expected |-> NoResponse,
            over |-> FALSE]

Init ==
    /\ toolsIndex = EmptyBag
    /\ serversIndex = EmptyBag
    /\ pc = "idle"
    /\ request = NoRequest
    /\ st = InitialState(NoRequest)
    /\ response = NoResponse
    /\ produced = NoProduced
    /\ lastCall = NoCall
    /\ runs = [r \in Runs |-> IdleRun]
    /\ checkpoint = NoCheckpoint
    /\ messages = <<>>
    /\ max_tokens = MAX_TOKENS
    /\ pruned = <<>>
    /\ pruneDone = FALSE
    /\ node = "idle"
    /\ agentInput = NoInput
    /\ agentState = InitialAgentState(NoInput)
    /\ nodesRun = <<>>

\* the client is between two calls
Idle == pc = "idle" /\ lastCall = NoCall

CallIndexServerSummary ==
    /\ Idle
    /\ \E summary \in ServerSummaries :
        /\ IndexServerSummary(summary)
        /\ lastCall' = [op |-> "index_server_summary", summary |-> summary]
    /\ UNCHANGED <<managerVars, agentVars, serverVars, prunerVars>>

\* the server_context a caller passes: none, or the indexed text of a summary
\* of the tool's server
ContextsFor(entry) ==
    {NoContext} \cup
    {ServerText(s) : s \in {x \in ServerSummaries : x.server_name = entry.server}}

CallIndexTool ==
    /\ Idle
    /\ \E entry \in IndexedEntries : \E server_context \in ContextsFor(entry) :
       \E fails \in BOOLEAN :
        /\ IndexTool(entry, server_context, fails)
        /\ lastCall' = [op |-> "index_tool", entry |-> entry,
                        server_context |-> server_context, raised |-> fails,
                        already |-> ToolRecord(entry.name, entry.server, entry.description,
                                               entry.inputSchema, server_context)
                                    \in BagToSet(toolsIndex)]
    /\ UNCHANGED <<managerVars, agentVars, serverVars, prunerVars>>

\* the positions of a catalog that sync does not skip
ValidPositions(catalog) ==
    {i \in 1..Len(catalog) : catalog[i].name # "" /\ catalog[i].server # ""}

CallSync ==
    /\ Idle
    /\ \E fetchOk \in BOOLEAN :
       \E catalog \in IF fetchOk THEN Catalogs ELSE {<<>>} :
       \E failAt \in {0} \cup ValidPositions(catalog) : \E ctxFails \in BOOLEAN :
        /\ SyncFromMcpproxy(fetchOk, catalog, failAt, ctxFails)
        /\ lastCall' =
             [op |-> "sync", fetchOk |-> fetchOk, catalog |-> catalog, failAt |-> failAt,
              had |-> Ids(toolsIndex),
              value |-> SyncResult(toolsIndex, serversIndex, fetchOk, catalog,
                                   failAt, ctxFails).value]
    /\ UNCHANGED <<managerVars, agentVars, serverVars, prunerVars>>

\* a direct call of SemanticSearchTools.semantic_search
CallSemanticSearch ==
    /\ Idle
    /\ \E query \in Queries : \E limit \in Limits : \E include_reasoning \in BOOLEAN :
       \E o \in SemanticSearchOutcomes(query, limit, include_reasoning) :
        lastCall' = [op |-> "semantic_search", query |-> query, limit |-> limit,
                     include_reasoning |-> include_reasoning, raised |-> o.raised,
                     server_hits |-> o.server_hits, tool_hits |-> o.tool_hits,
                     result |-> o.result]
    /\ UNCHANGED <<managerVars, serverVars, prunerVars, toolsIndex, serversIndex, agentVars>>

HybridLimits == 1..MaxLimit

CallHybridSearch ==
    /\ Idle
    /\ \E query \in Queries : \E limit \in HybridLimits :
       \E semantic_weight \in {Zero, Rat(1, 2), One} :
       \E o \in HybridSearchOutcomes(query, limit, semantic_weight) :
        lastCall' = [op |-> "hybrid_search", query |-> query, limit |-> limit,
                     semantic_weight |-> semantic_weight, raised |-> o.raised,
                     semantic |-> o.semantic, keyword |-> o.keyword,
                     keyword_failed |-> o.keyword_failed, result |-> o.result]
    /\ UNCHANGED <<managerVars, serverVars, prunerVars, toolsIndex, serversIndex, agentVars>>

\* SemanticSearchAgent.search: the graph starts at its entry point
Search ==
    /\ Idle
    /\ \E req \in Requests :
        /\ request' = req
        /\ st' = InitialState(req)
    /\ pc' = "analyze_query"
    /\ UNCHANGED <<managerVars, serverVars, prunerVars, toolsIndex, serversIndex, response, produced, lastCall>>

AnalyzeQueryNode ==
    /\ pc = "analyze_query"
    /\ st' = AnalyzeQuery(st)
    /\ pc' = RouteSearchMode(st')
    /\ UNCHANGED <<managerVars, serverVars, prunerVars, toolsIndex, serversIndex, request, response, produced, lastCall>>

\* faulty variant of SemanticSearchNode: the node clears the tool collection it
\* has queried
SemanticSearchNodeClearing ==
    /\ pc = "semantic_search"
    /\ \E o \in SemanticSearchOutcomes(st.user_query, st.limit, st.include_reasoning) :
        /\ st' = SemanticSearchState(st, o)
        /\ produced' = [raised |-> o.raised, candidates |-> st'.candidates,
                        retrieved |-> o.result.tools, keyword_failed |-> FALSE]
    /\ pc' = "rerank_results"
    /\ toolsIndex' = EmptyBag
    /\ UNCHANGED <<managerVars, serverVars, prunerVars, serversIndex, request, response, lastCall>>

SemanticSearchNode ==
    /\ pc = "semantic_search"
    /\ \E o \in SemanticSearchOutcomes(st.user_query, st.limit, st.include_reasoning) :
        /\ st' = SemanticSearchState(st, o)
        /\ produced' = [raised |-> o.raised, candidates |-> st'.candidates,
                        retrieved |-> o.result.tools, keyword_failed |-> FALSE]
    /\ pc' = "rerank_results"
    /\ UNCHANGED <<managerVars, serverVars, prunerVars, toolsIndex, serversIndex, request, response, lastCall>>

HybridSearchNode ==
    /\ pc = "hybrid_search"
    /\ \E o \in HybridSearchOutcomes(st.user_query, st.limit, st.semantic_weight) :
        /\ st' = HybridSearchState(st, o)
        /\ produced' = [raised |-> o.raised, candidates |-> st'.candidates,
                        retrieved |-> o.result.tools, keyword_failed |-> o.keyword_failed]
    /\ pc' = "rerank_results"
    /\ UNCHANGED <<managerVars, serverVars, prunerVars, toolsIndex, serversIndex, request, response, lastCall>>

ContextAwareSearchNode ==
    /\ pc = "context_aware_search"
    /\ \E o \in SemanticSearchOutcomes(st.user_query, st.limit * 2, TRUE) :
        /\ st' = ContextAwareSearchState(st, o)
        /\ produced' = [raised |-> o.raised, candidates |-> st'.candidates,
                        retrieved |-> o.result.tools, keyword_failed |-> FALSE]
    /\ pc' = "rerank_results"
    /\ UNCHANGED <<managerVars, serverVars, prunerVars, toolsIndex, serversIndex, request, response, lastCall>>

RerankResultsNode ==
    /\ pc = "rerank_results"
    /\ st' = RerankResults(st)
    /\ pc' = "finalize"
    /\ UNCHANGED <<managerVars, serverVars, prunerVars, toolsIndex, serversIndex, request, response, produced, lastCall>>

FinalizeNode ==
    /\ pc = "finalize"
    /\ st' = Finalize(st)
    /\ pc' = "end"
    /\ UNCHANGED <<managerVars, serverVars, prunerVars, toolsIndex, serversIndex, request, response, produced, lastCall>>

\* the graph has ended: search builds the response and returns it
SearchReturn ==
    /\ pc = "end"
    /\ response' = BuildResponse(st)
    /\ pc' = "returned"
    /\ UNCHANGED <<managerVars, serverVars, prunerVars, toolsIndex, serversIndex, request, st, produced, lastCall>>

\* the client has taken the result of its call
Continue ==
    /\ pc = "returned" \/ lastCall # NoCall
    /\ pc' = "idle"
    /\ request' = NoRequest
    /\ st' = InitialState(NoRequest)
    /\ response' = NoResponse
    /\ produced' = NoProduced
    /\ lastCall' = NoCall
    /\ UNCHANGED <<managerVars, serverVars, prunerVars, toolsIndex, serversIndex>>

Next ==
    \/ CallIndexServerSummary
    \/ CallIndexTool
    \/ CallSync
    \/ CallSemanticSearch
    \/ CallHybridSearch
    \/ Search
    \/ AnalyzeQueryNode
    \/ SemanticSearchNode
    \/ HybridSearchNode
    \/ ContextAwareSearchNode
    \/ RerankResultsNode
    \/ FinalizeNode
    \/ SearchReturn
    \/ Continue

Spec == Init /\ [][Next]_vars

----------------------------------------------------------------------------
(* The API process (semantic_search_api.py): searches in flight together on *)
(* one event loop, all on thread "default", and the sync endpoint.          *)
(* sync_from_mcpproxy is a synchronous call: the event loop runs no step    *)
(* of a search while it runs. A step of a search is one node of the graph,  *)
(* after which the checkpointer saves the state.                            *)

\* the requests sent to /api/semantic-search
ServerRequests ==
    {r \in Requests :
        /\ r.limit = 1 /\ r.include_reasoning
        /\ \/ r.mode = "semantic"
           \/ r.mode = "hybrid" /\ r.semantic_weight = One /\ Len(r.query) = 2}

\* the tools of the aggregator, in the order /api/tools/list names them
CatalogOrder == <<"github:create_issue", "github:search_code", "filesystem:write_file">>

\* the catalogs /api/tools/list answers a sync with: the first MaxCatalog
\* tools of the aggregator
ServerCatalogs ==
    {c \in Catalogs : /\ Len(c) = Min(MaxCatalog, Len(CatalogOrder))
                      /\ \A i \in 1..Len(c) :
                            c[i] \in ValidEntries /\ c[i].name = CatalogOrder[i]}

\* the process after lifespan's startup: the server collection as an earlier
\* process left it on disk, the tool collection after the initial sync
ServerInit ==
    /\ serversIndex \in {EmptyBag} \cup
                        {Upsert(EmptyBag, ServerRecord(s)) :
                             s \in {x \in ServerSummaries : x.server_name = "github"}}
    /\ \E catalog \in {<<>>} \cup ServerCatalogs :
          toolsIndex = SyncResult(EmptyBag, serversIndex, TRUE, catalog, 0, FALSE).index
    /\ pc = "idle"
    /\ request = NoRequest
    /\ st = InitialState(NoRequest)
    /\ response = NoResponse
    /\ produced = NoProduced
    /\ lastCall = NoCall
    /\ runs = [r \in Runs |-> IdleRun]
    /\ checkpoint = NoCheckpoint
    /\ messages = <<>>
    /\ max_tokens = MAX_TOKENS
    /\ pruned = <<>>
    /\ pruneDone = FALSE
    /\ node = "idle"
    /\ agentInput = NoInput
    /\ agentState = InitialAgentState(NoInput)
    /\ nodesRun = <<>>

\* POST /api/semantic-search: semantic_agent.search(request) starts the graph
\* on thread "default"
ServerSearch(r) ==
    /\ runs[r].pc = "idle"
    /\ \E req \in ServerRequests :
        LET state == MergeInput(checkpoint, InitialState(req))
        IN  /\ runs' = [runs EXCEPT ![r] = [IdleRun EXCEPT !.pc = "analyze_query",
                                                          !.request = req,
                                                          !.st = state,
                                                          !.over =
                                                              /\ "error" \in DOMAIN checkpoint
                                                              /\ checkpoint.error # NoError]]
            /\ checkpoint' = state
    /\ UNCHANGED <<managerVars, prunerVars, toolsIndex, serversIndex, agentVars, lastCall>>

ServerAnalyzeQuery(r) ==
    /\ runs[r].pc = "analyze_query"
    /\ LET state == AnalyzeQuery(runs[r].st)
       IN  /\ runs' = [runs EXCEPT ![r].st = state, ![r].pc = RouteSearchMode(state)]
           /\ checkpoint' = state
    /\ UNCHANGED <<managerVars, prunerVars, toolsIndex, serversIndex, agentVars, lastCall>>

\* the retrieval node the request was routed to
ServerRetrieve(r) ==
    /\ runs[r].pc \in {"semantic_search", "hybrid_search", "context_aware_search"}
    /\ LET s == runs[r].st
           outcomes ==
               CASE runs[r].pc = "semantic_search" ->
                        SemanticSearchOutcomes(s.user_query, s.limit, s.include_reasoning)
                 [] runs[r].pc = "hybrid_search" ->
                        \* the lexical collaborator answers with at most one tool
                        {o \in HybridSearchOutcomes(s.user_query, s.limit,
                                                    s.semantic_weight) :
                            Len(o.keyword) <= 1}
                 [] OTHER ->
                        SemanticSearchOutcomes(s.user_query, s.limit * 2, TRUE)
       IN  \E o \in outcomes :
            LET state == CASE runs[r].pc = "semantic_search" -> SemanticSearchState(s, o)
                           [] runs[r].pc = "hybrid_search" -> HybridSearchState(s, o)
                           [] OTHER -> ContextAwareSearchState(s, o)
            IN  /\ runs' = [runs EXCEPT ![r].st = state, ![r].pc = "rerank_results",
                                        ![r].answered = TRUE,
                                        ![r].expected = ResponseFor(runs[r].request, o)]
                /\ checkpoint' = state
    /\ UNCHANGED <<managerVars, prunerVars, toolsIndex, serversIndex, agentVars, lastCall>>

ServerRerankResults(r) ==
    /\ runs[r].pc = "rerank_results"
    /\ LET state == RerankResults(runs[r].st)
       IN  /\ runs' = [runs EXCEPT ![r].st = state, ![r].pc = "finalize"]
           /\ checkpoint' = state
    /\ UNCHANGED <<managerVars, prunerVars, toolsIndex, serversIndex, agentVars, lastCall>>

ServerFinalize(r) ==
    /\ runs[r].pc = "finalize"
    /\ LET state == Finalize(runs[r].st)
       IN  /\ runs' = [runs EXCEPT ![r].st = state, ![r].pc = "end"]
           /\ checkpoint' = state
    /\ UNCHANGED <<managerVars, prunerVars, toolsIndex, serversIndex, agentVars, lastCall>>

\* the graph has ended: search builds the response
ServerSearchReturn(r) ==
    /\ runs[r].pc = "end"
    /\ runs' = [runs EXCEPT ![r].response = BuildResponse(runs[r].st),
                            ![r].pc = "returned"]
    /\ UNCHANGED <<managerVars, prunerVars, toolsIndex, serversIndex, agentVars, lastCall, checkpoint>>

\* the endpoint has sent the response
ServerRespond(r) ==
    /\ runs[r].pc = "returned"
    /\ runs' = [runs EXCEPT ![r] = IdleRun]
    /\ UNCHANGED <<managerVars, prunerVars, toolsIndex, serversIndex, agentVars, lastCall, checkpoint>>

\* POST /api/sync-tools: the whole of sync_from_mcpproxy, which nothing on
\* the event loop interrupts
ServerSync ==
    /\ \E catalog \in ServerCatalogs : \E failAt \in {0, Len(catalog)} :
        SyncFromMcpproxy(TRUE, catalog, failAt, FALSE)
    /\ UNCHANGED <<managerVars, prunerVars, agentVars, serverVars, lastCall>>

ServerNext ==
    \/ \E r \in Runs : ServerSearch(r)
    \/ \E r \in Runs : ServerAnalyzeQuery(r)
    \/ \E r \in Runs : ServerRetrieve(r)
    \/ \E r \in Runs : ServerRerankResults(r)
    \/ \E r \in Runs : ServerFinalize(r)
    \/ \E r \in Runs : ServerSearchReturn(r)
    \/ \E r \in Runs : ServerRespond(r)
    \/ ServerSync

ServerSpec == ServerInit /\ [][ServerNext]_vars

----------------------------------------------------------------------------
(* A caller of ContextPruner.prune_conversation_history *)

\* the messages of a history: the system prompt, a long answer, a report of
\* an error, a short reply
MessageKinds ==
    { [role |-> "system", content |-> <<"prompt">>],
      [role |-> "assistant", content |-> <<Filler>>],
      [role |-> "user", content |-> <<"Error">>] }

Histories == SeqsUpTo(MessageKinds, MaxMessages)

\* token budgets: one that two short messages fill, and one that leaves room
\* beside the reserve for the system message
TokenBudgets == {20, 1070}

PruneInit ==
    /\ messages \in Histories
    /\ max_tokens \in TokenBudgets
    /\ pruned = <<>>
    /\ pruneDone = FALSE
    /\ toolsIndex = EmptyBag
    /\ serversIndex = EmptyBag
    /\ pc = "idle"
    /\ request = NoRequest
    /\ st = InitialState(NoRequest)
    /\ response = NoResponse
    /\ produced = NoProduced
    /\ lastCall = NoCall
    /\ runs = [r \in Runs |-> IdleRun]
    /\ checkpoint = NoCheckpoint
    /\ node = "idle"
    /\ agentInput = NoInput
    /\ agentState = InitialAgentState(NoInput)
    /\ nodesRun = <<>>

\* ContextPruner(max_tokens).prune_conversation_history(messages)
Prune ==
    /\ ~pruneDone
    /\ pruned' = PruneConversationHistory(messages, max_tokens)
    /\ pruneDone' = TRUE
    /\ UNCHANGED <<managerVars, messages, max_tokens, toolsIndex, serversIndex, agentVars, lastCall,
                   serverVars>>

PruneNext == Prune

PruneSpec == PruneInit /\ [][PruneNext]_vars

----------------------------------------------------------------------------
(* _context_aware_search as a function of what semantic_search answers: the *)
(* node is run on the results semantic_search computes from any answer of    *)
(* the two collections.                                                      *)

\* the answers of a collection to one query: hits of distinct ids, nearest
\* first, at distances 0, 0.2 or 0.8
HitLists(ids, metadata) ==
    LET HitDistances == {Zero, Rat(2, 10), Rat(8, 10)} IN
    UNION { { [i \in 1..n |-> [id |-> order[i], distance |-> dist[i],
                               metadata |-> metadata[order[i]]]] :
              order \in {f \in [1..n -> ids] : \A i, j \in 1..n : i < j => f[i] # f[j]},
              dist \in {g \in [1..n -> HitDistances] :
                           \A i, j \in 1..n : i < j => RLeq(g[i], g[j])} } :
            n \in 0..Cardinality(ids) }

ContextInit ==
    /\ request \in {r \in Requests : /\ r.mode = "context_aware" /\ r.limit \in 1..MaxLimit
                                     /\ Len(r.query) = 2}
    /\ st = AnalyzeQuery(InitialState(request))
    /\ pc = "context_aware_search"
    /\ response = NoResponse
    /\ produced = NoProduced
    /\ toolsIndex = EmptyBag
    /\ serversIndex = EmptyBag
    /\ lastCall = NoCall
    /\ runs = [r \in Runs |-> IdleRun]
    /\ checkpoint = NoCheckpoint
    /\ messages = <<>>
    /\ max_tokens = MAX_TOKENS
    /\ pruned = <<>>
    /\ pruneDone = FALSE
    /\ node = "idle"
    /\ agentInput = NoInput
    /\ agentState = InitialAgentState(NoInput)
    /\ nodesRun = <<>>

\* what semantic_search(query, limit, True) can do, whatever the collections
\* hold
SemanticSearchAnswers(query, limit) ==
    LET servers == {s.server_name : s \in ServerSummaries}
        tools == {e.name : e \in IndexedEntries}
        ServerHitLists ==
            HitLists(servers, [name \in servers |->
                ServerRecord(CHOOSE s \in ServerSummaries : s.server_name = name).metadata])
        ToolHitLists ==
            HitLists(tools, [name \in tools |->
                LET e == CHOOSE x \in IndexedEntries : x.name = name
                IN  ToolRecord(e.name, e.server, e.description, e.inputSchema,
                               NoContext).metadata])
    IN  {[raised |-> TRUE, result |-> NoResult, server_hits |-> <<>>,
          tool_hits |-> <<>>]} \cup
        {[raised |-> FALSE,
          result |-> SemanticSearchFrom(query, limit, TRUE, sh, th),
          server_hits |-> sh, tool_hits |-> th] :
         sh \in ServerHitLists, th \in ToolHitLists}

\* _context_aware_search on one answer of semantic_search(query, limit * 2)
ContextAwareSearchOf ==
    /\ pc = "context_aware_search"
    /\ \E o \in SemanticSearchAnswers(st.user_query, st.limit * 2) :
        /\ st' = ContextAwareSearchState(st, o)
        /\ produced' = [raised |-> o.raised, candidates |-> st'.candidates,
                        retrieved |-> o.result.tools, keyword_failed |-> FALSE]
    /\ pc' = "rerank_results"
    /\ UNCHANGED <<managerVars, serverVars, prunerVars, toolsIndex, serversIndex, request, response,
                   lastCall>>

ContextNext == ContextAwareSearchOf

ContextSpec == ContextInit /\ [][ContextNext]_vars

----------------------------------------------------------------------------
(* A caller of MCPAgentGraph.run: one run of the workflow that            *)
(* _build_graph defines. A node raises when a call of the diagnostic tools  *)
(* raises; no node catches it, so the run raises. (As written, __init__     *)
(* calls _build_graph, which reads self.memory, before it assigns           *)
(* self.memory; the model is of the graph itself.)                          *)

\* one node of the graph has run: the state it returns is the state of the
\* run, and the edge taken names the node to run next
NodeRuns(name, state, next) ==
    /\ node = name
    /\ agentState' = state
    /\ node' = next
    /\ nodesRun' = Append(nodesRun, name)
    /\ UNCHANGED <<agentInput, toolsIndex, serversIndex, agentVars, lastCall, serverVars,
                   prunerVars>>

\* run: the graph starts at its entry point on initial_state
Run ==
    /\ node = "idle"
    /\ \E input \in AgentInputs :
        /\ agentInput' = input
        /\ agentState' = InitialAgentState(input)
    /\ node' = "analyze_request"
    /\ UNCHANGED <<nodesRun, toolsIndex, serversIndex, agentVars, lastCall, serverVars,
                   prunerVars>>

AnalyzeRequestNode ==
    /\ node = "analyze_request"
    /\ LET state == AnalyzeRequest(agentState)
       IN  NodeRuns("analyze_request", state, RouteAfterAnalysis(state))

\* _check_server_status; identify_connection_issues returns or raises
CheckServerStatusNode ==
    /\ node = "check_server_status"
    /\ \E raises \in BOOLEAN :
        IF NoTarget(agentState)
        THEN NodeRuns("check_server_status",
                      [agentState EXCEPT !.error = "No target server specified"],
                      "diagnose")
        ELSE IF raises
        THEN NodeRuns("check_server_status", agentState, "raised")
        ELSE NodeRuns("check_server_status",
                      [agentState EXCEPT !.server_status = "status"], "diagnose")

\* _diagnose; the three calls of the diagnostic tools return, or one raises
DiagnoseNode ==
    /\ node = "diagnose"
    /\ \E raises \in BOOLEAN :
        IF raises THEN NodeRuns("diagnose", agentState, "raised")
        ELSE NodeRuns("diagnose", [agentState EXCEPT !.diagnostic_results = "results"],
                      "suggest_fixes")

\* _test
TestNode ==
    /\ node = "test"
    /\ NodeRuns("test", [agentState EXCEPT !.test_results = "passed"], "report")

\* _configure
ConfigureNode ==
    /\ node = "configure"
    /\ NodeRuns("configure", [agentState EXCEPT !.config_changes = "none"], "report")

\* _install
InstallNode ==
    /\ node = "install"
    /\ NodeRuns("install", agentState, "monitor")

SuggestFixesNode ==
    /\ node = "suggest_fixes"
    /\ \E raises \in BOOLEAN : \E fixes \in FixLists :
        LET state == SuggestFixes(agentState, fixes)
        IN  IF raises THEN NodeRuns("suggest_fixes", agentState, "raised")
            ELSE NodeRuns("suggest_fixes", state, CheckApprovalNeeded(state))

\* _await_approval, then _check_approval_status and the conditional edges of
\* await_approval
AwaitApprovalNode ==
    /\ node = "await_approval"
    /\ LET state == [agentState EXCEPT !.approval_granted = FALSE]
       IN  NodeRuns("await_approval", state,
                    IF state.approval_granted THEN "execute_fixes" ELSE "report")

\* _execute_fixes
ExecuteFixesNode ==
    /\ node = "execute_fixes"
    /\ NodeRuns("execute_fixes", agentState, "monitor")

\* _monitor
MonitorNode ==
    /\ node = "monitor"
    /\ NodeRuns("monitor", agentState, "report")

\* _report
ReportNode ==
    /\ node = "report"
    /\ NodeRuns("report", [agentState EXCEPT !.completed = TRUE], "END")

ManagerNext ==
    \/ Run
    \/ AnalyzeRequestNode
    \/ CheckServerStatusNode
    \/ DiagnoseNode
    \/ TestNode
    \/ ConfigureNode
    \/ InstallNode
    \/ SuggestFixesNode
    \/ AwaitApprovalNode
    \/ ExecuteFixesNode
    \/ MonitorNode
    \/ ReportNode

ManagerSpec == Init /\ [][ManagerNext]_vars

----------------------------------------------------------------------------
(* Claims *)

RetrievalNodes == {"semantic_search", "hybrid_search", "context_aware_search"}

AfterRetrieval == {"rerank_results", "finalize", "end", "returned"}

\* a request with limit > 0 and semantic_weight in [0, 1]
ValidRequest(r) ==
    /\ r.limit > 0
    /\ RLeq(Zero, r.semantic_weight) /\ RLeq(r.semantic_weight, One)

\* the position of the tool named `name` in a list of candidates (0: absent)
PosOf(tools, name) ==
    IF \E i \in 1..Len(tools) : tools[i].tool_name = name
    THEN CHOOSE i \in 1..Len(tools) : tools[i].tool_name = name
    ELSE 0

\* the last position of the tool named `name` in a keyword list (0: absent)
LastPos(keyword_tools, name) ==
    IF \E i \in 1..Len(keyword_tools) : keyword_tools[i].name = name
    THEN CHOOSE i \in 1..Len(keyword_tools) :
             /\ keyword_tools[i].name = name
             /\ \A j \in (i + 1)..Len(keyword_tools) : keyword_tools[j].name # name
    ELSE 0

\* C1: a search whose request has limit > 0 and semantic_weight in [0, 1]
\* returns at most `limit` tools, in every mode.
C1_LenWithinLimit ==
    (pc = "returned" /\ ValidRequest(request)) =>
        Len(response.tools) <= request.limit

\* a search returned exactly `limit` tools although the strategy found more
\* in the tool collection
C1_Witness ==
    /\ pc = "returned" /\ ValidRequest(request)
    /\ Len(response.tools) = request.limit
    /\ Size(toolsIndex) > request.limit

\* C2: the returned tools are ordered by final_score, highest first, and tools
\* of equal final_score stand in the order in which the retrieval strategy
\* produced them.
C2_SortedStable ==
    pc = "returned" =>
        LET t == response.tools
            c == produced.candidates
        IN  /\ Len(t) = Len(c)
            /\ \A i \in 1..Len(c) : PosOf(t, c[i].tool_name) # 0
            /\ \A i, j \in 1..Len(t) : i < j => RLeq(t[j].final_score, t[i].final_score)
            /\ \A i, j \in 1..Len(c) :
                  (i < j /\ c[i].final_score = c[j].final_score) =>
                      PosOf(t, c[i].tool_name) < PosOf(t, c[j].tool_name)

\* a search returned two tools of equal final_score and one of another score
C2_Witness ==
    /\ pc = "returned"
    /\ \E i, j \in 1..Len(response.tools) :
          i < j /\ response.tools[i].final_score = response.tools[j].final_score
    /\ \E i, j \in 1..Len(response.tools) :
          response.tools[i].final_score # response.tools[j].final_score

\* C3: after index_tool has indexed a ToolRecord, calling it again with the
\* same arguments leaves the tool collection as it is: the same number of
\* records, the same records, and so the same answers to every query.
C3_IndexToolIdempotent ==
    (lastCall.op = "index_tool" /\ ~lastCall.raised) =>
        LET e == lastCall.entry
            again == IndexToolResult(toolsIndex, e.name, e.server, e.description,
                                     e.inputSchema, lastCall.server_context)
        IN  /\ Size(again) = Size(toolsIndex)
            /\ again = toolsIndex
            /\ \A q \in Queries :
                  QueryResults(again, GenerateEmbedding(q), Size(again))
                  = QueryResults(toolsIndex, GenerateEmbedding(q), Size(toolsIndex))

\* index_tool was called with a ToolRecord the collection already held,
\* beside another record
C3_Witness ==
    /\ lastCall.op = "index_tool" /\ ~lastCall.raised /\ lastCall.already
    /\ Size(toolsIndex) >= 2

\* C4: hybrid_search with semantic_weight = 1: the tools of the semantic list
\* are all in the result, in their semantic order; a tool that is only in the
\* lexical list has final_score 0 and stands behind every tool of the
\* semantic list.
C4_HybridWeightOne ==
    (lastCall.op = "hybrid_search" /\ ~lastCall.raised /\ lastCall.semantic_weight = One) =>
        LET t == lastCall.result.tools
            sem == lastCall.semantic
        IN  /\ \A i \in 1..Len(sem) : PosOf(t, sem[i].tool_name) # 0
            /\ \A i, j \in 1..Len(sem) :
                  i < j => PosOf(t, sem[i].tool_name) < PosOf(t, sem[j].tool_name)
            /\ \A k \in 1..Len(t) :
                  PosOf(sem, t[k].tool_name) = 0 =>
                      /\ t[k].final_score = Zero
                      /\ \A i \in 1..Len(sem) : PosOf(t, sem[i].tool_name) < k

\* a call with weight 1 whose semantic list has two tools, one of them also
\* in the lexical list, and whose result holds a tool only the lexical list has
C4_Witness ==
    /\ lastCall.op = "hybrid_search" /\ ~lastCall.raised /\ lastCall.semantic_weight = One
    /\ Len(lastCall.semantic) >= 2
    /\ \E k \in 1..Len(lastCall.keyword) :
          PosOf(lastCall.semantic, lastCall.keyword[k].name) # 0
    /\ \E k \in 1..Len(lastCall.result.tools) :
          PosOf(lastCall.semantic, lastCall.result.tools[k].tool_name) = 0

\* C5 as stated: hybrid_search with semantic_weight = 0: the tool at 0-based
\* position j of the lexical list of length N has final_score 1 - j/N, the
\* tools of the lexical list stand in the result in their lexical order, and a
\* tool only in the semantic list has final_score 0 and stands behind them.
C5_AsStated ==
    (lastCall.op = "hybrid_search" /\ ~lastCall.raised /\ lastCall.semantic_weight = Zero) =>
        LET t == lastCall.result.tools
            kw == lastCall.keyword
        IN  /\ \A j \in 1..Len(kw) :
                  PosOf(t, kw[j].name) # 0 =>
                      t[PosOf(t, kw[j].name)].final_score = RankScore(j - 1, Len(kw))
            /\ \A i, j \in 1..Len(kw) :
                  (i < j /\ kw[i].name # kw[j].name
                   /\ PosOf(t, kw[i].name) # 0 /\ PosOf(t, kw[j].name) # 0) =>
                      PosOf(t, kw[i].name) < PosOf(t, kw[j].name)
            /\ \A k \in 1..Len(t) :
                  LastPos(kw, t[k].tool_name) = 0 =>
                      /\ t[k].final_score = Zero
                      /\ \A j \in 1..Len(kw) :
                            PosOf(t, kw[j].name) # 0 /\ PosOf(t, kw[j].name) < k

\* C5 amended: as C5, with the position of a tool in the lexical list being
\* the position of its last occurrence there (its only position in a list
\* without repetitions).
C5_HybridWeightZero ==
    (lastCall.op = "hybrid_search" /\ ~lastCall.raised /\ lastCall.semantic_weight = Zero) =>
        LET t == lastCall.result.tools
            kw == lastCall.keyword
            last == {j \in 1..Len(kw) : LastPos(kw, kw[j].name) = j}
        IN  /\ \A j \in last :
                  PosOf(t, kw[j].name) # 0 =>
                      t[PosOf(t, kw[j].name)].final_score = RankScore(j - 1, Len(kw))
            /\ \A i, j \in last :
                  (i < j /\ PosOf(t, kw[j].name) # 0) =>
                      /\ PosOf(t, kw[i].name) # 0
                      /\ PosOf(t, kw[i].name) < PosOf(t, kw[j].name)
            /\ \A k \in 1..Len(t) :
                  LastPos(kw, t[k].tool_name) = 0 =>
                      /\ t[k].final_score = Zero
                      /\ \A j \in 1..Len(kw) :
                            PosOf(t, kw[j].name) # 0 /\ PosOf(t, kw[j].name) < k

\* a call with weight 0 whose lexical list names two tools, one of them also
\* in the semantic list, and whose result holds a tool only the semantic list has
C5_Witness ==
    /\ lastCall.op = "hybrid_search" /\ ~lastCall.raised /\ lastCall.semantic_weight = Zero
    /\ Cardinality({lastCall.keyword[j].name : j \in 1..Len(lastCall.keyword)}) >= 2
    /\ \E j \in 1..Len(lastCall.keyword) :
          PosOf(lastCall.semantic, lastCall.keyword[j].name) # 0
    /\ \E k \in 1..Len(lastCall.result.tools) :
          LastPos(lastCall.keyword, lastCall.result.tools[k].tool_name) = 0

\* C6: a context-aware search over an empty server collection returns only
\* candidates with context_score 0 and final_score 0.7 * similarity_score.
C6_EmptyServerIndex ==
    (pc = "returned" /\ response.mode = "context_aware" /\ serversIndex = EmptyBag) =>
        \A k \in 1..Len(response.tools) :
            /\ response.tools[k].context_score = Zero
            /\ response.tools[k].final_score
                 = RMul(Rat(7, 10), response.tools[k].similarity_score)

\* such a search returned two tools, one of them of positive similarity
C6_Witness ==
    /\ pc = "returned" /\ response.mode = "context_aware" /\ serversIndex = EmptyBag
    /\ Len(response.tools) >= 2
    /\ \E k \in 1..Len(response.tools) : RLess(Zero, response.tools[k].similarity_score)

\* C7: a sync in which the indexing of one catalog entry fails returns the
\* number of the other valid entries, and all of those are in the tool
\* collection afterwards.
C7_SyncIsolatesFailure ==
    (lastCall.op = "sync" /\ lastCall.fetchOk /\ lastCall.failAt # 0) =>
        LET others == ValidPositions(lastCall.catalog) \ {lastCall.failAt}
        IN  /\ lastCall.value = Cardinality(others)
            /\ \A i \in others : lastCall.catalog[i].name \in Ids(toolsIndex)

\* C8: no step removes a tool id from the tool collection: an id that is
\* present stays present, with a document to get.
C8_NeverRemoved ==
    [][\A id \in Ids(toolsIndex) :
           id \in Ids(toolsIndex') /\ GetDocuments(toolsIndex', id) # <<>>]_vars

\* a sync indexed entries, its catalog left out a tool indexed before, and
\* that tool is still in the collection
C8_Witness ==
    /\ lastCall.op = "sync" /\ lastCall.value > 0
    /\ \E id \in lastCall.had :
          /\ \A i \in 1..Len(lastCall.catalog) : lastCall.catalog[i].name # id
          /\ id \in Ids(toolsIndex)

\* C9: a request with limit <= 0 or semantic_weight outside [0, 1] reaches no
\* retrieval node and no later node of the workflow.
C9_InvalidRejected ==
    pc \in RetrievalNodes \cup AfterRetrieval => ValidRequest(request)

\* C10: when the strategy of a retrieval node raises, the node records an
\* error and no candidates and hands over to rerank_results; rerank_results
\* hands over to finalize, finalize completes the state, and search returns
\* a response with no tools and total 0.
C10_FailureContinues ==
    [][/\ (pc \in RetrievalNodes /\ produced'.raised) =>
              /\ st'.error # NoError
              /\ st'.candidates = <<>>
              /\ pc' = "rerank_results"
       /\ (pc = "rerank_results" /\ produced.raised) =>
              pc' = "finalize" /\ st'.selected_tools = <<>> /\ st'.error = st.error
       /\ (pc = "finalize" /\ produced.raised) =>
              pc' = "end" /\ st'.completed /\ st'.error = st.error
       /\ (pc = "end" /\ produced.raised) =>
              /\ pc' = "returned"
              /\ response'.tools = <<>>
              /\ response'.total = 0]_vars

\* a search whose strategy raised has returned
C10_Witness ==
    /\ pc = "returned" /\ produced.raised
    /\ Size(toolsIndex) > 0

\* C11: when the strategy of a retrieval node raised, the response search
\* returns tells so: its reasoning is not empty. (SearchResponse has the
\* fields tools, total, reasoning and mode, and no error field.)
C11_FailureDescribed ==
    (pc = "returned" /\ produced.raised) => response.reasoning # [kind |-> ""]

\* C12: a search runs analyze_query first, then the one retrieval node of its
\* mode, then rerank_results, then finalize, which completes the state; then
\* the graph ends and search returns. No other order of nodes occurs, so no
\* retrieval node runs twice and none runs after rerank_results.
C12_PipelineOrder ==
    [][/\ (pc = "idle" /\ pc' # "idle") => pc' = "analyze_query"
       /\ pc = "analyze_query" =>
              /\ pc' \in RetrievalNodes
              /\ pc' = (CASE st'.search_mode = "semantic" -> "semantic_search"
                          [] st'.search_mode = "hybrid" -> "hybrid_search"
                          [] OTHER -> "context_aware_search")
       /\ pc \in RetrievalNodes => pc' = "rerank_results"
       /\ pc = "rerank_results" => pc' = "finalize"
       /\ pc = "finalize" => (pc' = "end" /\ st'.completed)
       /\ pc = "end" => (pc' = "returned" /\ st.completed)
       /\ pc = "returned" => pc' = "idle"]_vars

\* a hybrid search went through the workflow and returned tools
C12_Witness ==
    /\ pc = "returned" /\ st.completed
    /\ st.search_mode = "hybrid"
    /\ Len(response.tools) > 0

\* C13: the response of a search (tools, total, reasoning, mode) is the one
\* its request and the answer of the collections and of the lexical
\* collaborator to its retrieval determine, whatever the other searches on
\* thread "default" did before it or do beside it.
C13_RequestIsolated ==
    \A r \in Runs :
        runs[r].pc = "returned" =>
            /\ runs[r].answered
            /\ runs[r].response = runs[r].expected

\* a search that started over the checkpoint of a failed search returned
\* tools, while the other search was in flight
C13_Witness ==
    \E r \in Runs, q \in Runs :
        /\ r # q
        /\ runs[r].pc = "returned" /\ runs[r].over
        /\ Len(runs[r].response.tools) > 0
        /\ runs[q].pc \notin {"idle", "returned"}

\* the tool collection after a sync of `catalog` in which no indexing fails
WholeBatch(catalog) ==
    SyncResult(toolsIndex, serversIndex, TRUE, catalog, 0, FALSE).index

C15_SearchKeepsIndices ==
    [][(pc # "idle" \/ pc' # "idle" \/ lastCall'.op = "hybrid_search") =>
           (toolsIndex' = toolsIndex /\ serversIndex' = serversIndex)]_vars

\* a search over collections that both hold records has returned tools
C15_Witness ==
    /\ pc = "returned"
    /\ Size(toolsIndex) > 1 /\ Size(serversIndex) > 1
    /\ Len(response.tools) > 1

\* similarity_score and context_score of a candidate are in [0, 1]
ScoresInUnitInterval(tool) ==
    /\ RLeq(Zero, tool.similarity_score) /\ RLeq(tool.similarity_score, One)
    /\ RLeq(Zero, tool.context_score) /\ RLeq(tool.context_score, One)

\* C16: every candidate a strategy returns has similarity_score and
\* context_score in [0, 1]: the candidates a retrieval node wrote, the tools
\* of a response, and the tools of a hybrid_search result, those that come
\* from the lexical list alone included.
C16_ScoresInRange ==
    /\ \A k \in 1..Len(produced.candidates) : ScoresInUnitInterval(produced.candidates[k])
    /\ \A k \in 1..Len(response.tools) : ScoresInUnitInterval(response.tools[k])
    /\ lastCall.op = "hybrid_search" =>
          \A k \in 1..Len(lastCall.result.tools) :
              ScoresInUnitInterval(lastCall.result.tools[k])

\* a search returned a tool whose similarity was clamped to 0 beside a tool
\* of positive similarity and positive context score
C16_Witness ==
    /\ pc = "returned" /\ st.search_mode # "hybrid"
    /\ \E k \in 1..Len(response.tools) : response.tools[k].similarity_score = Zero
    /\ \E k \in 1..Len(response.tools) :
          /\ RLess(Zero, response.tools[k].similarity_score)
          /\ RLess(Zero, response.tools[k].context_score)

\* the query of the request contains an indicator phrase once lower-cased
HasIndicator(query) ==
    \E indicator \in ContextIndicators :
        Contains([i \in 1..Len(query) |-> LowerToken(query[i])], indicator)

\* the mode a request is searched in
ResultingMode(req) == IF HasIndicator(req.query) THEN "context_aware" ELSE req.mode

\* C19: after analyze_query the mode of the state is context_aware when the
\* lower-cased query contains an indicator phrase and the requested mode
\* otherwise; the retrieval node that runs is the one of this mode, and the
\* response reports this mode.
C19_ModeOverride ==
    /\ pc \in RetrievalNodes \cup AfterRetrieval =>
          st.search_mode = ResultingMode(request)
    /\ pc \in RetrievalNodes =>
          pc = (CASE ResultingMode(request) = "semantic" -> "semantic_search"
                  [] ResultingMode(request) = "hybrid" -> "hybrid_search"
                  [] OTHER -> "context_aware_search")
    /\ pc = "returned" => response.mode = ResultingMode(request)

\* a request for semantic mode whose query asks "Which server" was answered
\* in context_aware mode
C19_Witness ==
    /\ pc = "returned"
    /\ request.mode = "semantic" /\ HasIndicator(request.query)
    /\ response.mode = "context_aware"
    /\ Len(response.tools) > 0

\* C20: the limit, the semantic_weight and the include_reasoning of a
\* request with limit > 0 and semantic_weight in [0, 1] are those of the
\* state the retrieval node runs on.
C20_SuppliedValuesKept ==
    (pc \in RetrievalNodes /\ ValidRequest(request)) =>
        /\ st.limit = request.limit
        /\ st.semantic_weight = request.semantic_weight
        /\ st.include_reasoning = request.include_reasoning

\* the last n elements of s (all of s when it has fewer)
LastOf(s, n) == SubSeq(s, Max(1, Len(s) - n + 1), Len(s))

\* C17: the history prune_conversation_history returns ends with the last
\* RECENT_MESSAGE_COUNT messages of its input (with all of them when the
\* input has fewer), unchanged and in their order.
C17_RecentKept ==
    pruneDone =>
        LET recent == LastOf(messages, RECENT_MESSAGE_COUNT)
        IN  /\ Len(pruned) >= Len(recent)
            /\ LastOf(pruned, Len(recent)) = recent

\* C18: the token estimates of the returned history sum to at most max_tokens.
C18_WithinBudget ==
    pruneDone => SumTokens(pruned) <= max_tokens


----------------------------------------------------------------------------
(* Claims on the retrieval functions called directly *)

\* a direct call of semantic_search has returned a result
SemanticReturned == lastCall.op = "semantic_search" /\ ~lastCall.raised

\* the hit of the tool query a returned candidate was built from
HitOf(tool_hits, name) == tool_hits[CHOOSE i \in 1..Len(tool_hits) : tool_hits[i].id = name]

\* C21: every candidate semantic_search returns has final_score =
\* 0.7 * similarity_score + 0.3 * context_score, where similarity_score is the
\* similarity of its hit in the tool collection and context_score is the
\* similarity of its server among the (at most 5) nearest hits of the server
\* collection, and 0 when its server is not among those hits.
C21_FinalScore ==
    SemanticReturned =>
        LET sh == lastCall.server_hits
            th == lastCall.tool_hits
        IN  /\ sh \in QueryResults(serversIndex, GenerateEmbedding(lastCall.query), 5)
            /\ \A i \in 1..Len(lastCall.result.tools) :
                  LET t == lastCall.result.tools[i]
                      among == {j \in 1..Len(sh) : sh[j].id = t.server_name}
                  IN  /\ \E j \in 1..Len(th) : th[j].id = t.tool_name
                      /\ t.server_name = HitOf(th, t.tool_name).metadata.server_name
                      /\ t.similarity_score = Similarity(HitOf(th, t.tool_name).distance)
                      /\ t.context_score =
                             IF among = {} THEN Zero
                             ELSE Similarity(sh[CHOOSE j \in among : TRUE].distance)
                      /\ t.final_score = RAdd(RMul(Rat(7, 10), t.similarity_score),
                                              RMul(Rat(3, 10), t.context_score))

\* semantic_search returned a tool of a server among the server hits, with a
\* context_score above 0 and a similarity_score that differs from it, and a
\* tool of a server that has no summary
C21_Witness ==
    /\ SemanticReturned
    /\ \E i, j \in 1..Len(lastCall.result.tools) :
          LET t == lastCall.result.tools[i]
              u == lastCall.result.tools[j]
          IN  /\ RLess(Zero, t.context_score)
              /\ t.context_score # t.similarity_score
              /\ u.server_name = "database" /\ u.context_score = Zero
              /\ RLess(Zero, u.final_score)

\* the final_score semantic_search gives a hit of the tool query
HitScore(hit, sh) ==
    LET among == {j \in 1..Len(sh) : sh[j].id = hit.metadata.server_name}
    IN  RAdd(RMul(Rat(7, 10), Similarity(hit.distance)),
             RMul(Rat(3, 10), IF among = {} THEN Zero
                              ELSE Similarity(sh[CHOOSE j \in among : TRUE].distance)))

\* C22: semantic_search asks the tool collection for the k = min(3 * limit, 50)
\* nearest hits and returns exactly min(limit, number of hits) of them, those
\* of highest final_score, in descending order of final_score; a tool outside
\* the k hits is not returned.
C22_TopOfOverFetch ==
    SemanticReturned =>
        LET th == lastCall.tool_hits
            tools == lastCall.result.tools
            k == Min(3 * lastCall.limit, 50)
            returned == {tools[i].tool_name : i \in 1..Len(tools)}
        IN  /\ th \in QueryResults(toolsIndex, GenerateEmbedding(lastCall.query), k)
            /\ Len(th) = Min(k, Size(toolsIndex))
            /\ Len(tools) = Min(lastCall.limit, Len(th))
            /\ lastCall.result.total = Len(tools)
            /\ Cardinality(returned) = Len(tools)
            /\ returned \subseteq {th[j].id : j \in 1..Len(th)}
            /\ \A i, j \in 1..Len(tools) :
                  i < j => RLeq(tools[j].final_score, tools[i].final_score)
            /\ \A j \in 1..Len(th) : \A i \in 1..Len(tools) :
                  th[j].id \notin returned =>
                      RLeq(HitScore(th[j], lastCall.server_hits), tools[i].final_score)

\* semantic_search returned `limit` tools out of more hits, one of them of a
\* lower final_score than every returned tool, while the collection held a
\* tool outside the k hits
C22_Witness ==
    /\ SemanticReturned
    /\ Size(toolsIndex) > Len(lastCall.tool_hits)
    /\ Len(lastCall.tool_hits) > lastCall.limit
    /\ Len(lastCall.result.tools) = lastCall.limit
    /\ \E j \in 1..Len(lastCall.tool_hits) :
          \A i \in 1..Len(lastCall.result.tools) :
              RLess(HitScore(lastCall.tool_hits[j], lastCall.server_hits),
                    lastCall.result.tools[i].final_score)

\* C23: when the tool query has no hit (as on an empty tool collection),
\* semantic_search returns no tools, total 0 and the reasoning "No tools found
\* matching the query". (The collection answers one query embedding with
\* ids = [[]], a list that holds one empty list.)
C23_NoToolsFound ==
    (SemanticReturned /\ lastCall.tool_hits = <<>>) =>
        /\ lastCall.result.tools = <<>>
        /\ lastCall.result.total = 0
        /\ lastCall.result.reasoning = [kind |-> "No tools found matching the query"]

\* a direct call of hybrid_search has returned a result
HybridReturned == lastCall.op = "hybrid_search" /\ ~lastCall.raised

\* the names of the two lists hybrid_search merges
MergedNames ==
    {lastCall.semantic[i].tool_name : i \in 1..Len(lastCall.semantic)} \cup
    {lastCall.keyword[j].name : j \in 1..Len(lastCall.keyword)}

\* semantic_weight * (1 - i/Ns) * (semantic final_score) of the tool named
\* `name`, 0 when the semantic list does not hold it
SemanticTerm(name) ==
    LET sem == lastCall.semantic
        i == PosOf(sem, name)
    IN  IF i = 0 THEN Zero
        ELSE RMul(lastCall.semantic_weight,
                  RMul(RSub(One, Rat(i - 1, Len(sem))), sem[i].final_score))

\* (1 - semantic_weight) * (1 - j/Nk) for position j (1-based here) of the
\* lexical list, 0 for j = 0
KeywordTerm(j) ==
    IF j = 0 THEN Zero
    ELSE RMul(RSub(One, lastCall.semantic_weight),
              RSub(One, Rat(j - 1, Len(lastCall.keyword))))

\* the first position of the tool named `name` in a keyword list (0: absent)
FirstPos(keyword_tools, name) ==
    IF \E i \in 1..Len(keyword_tools) : keyword_tools[i].name = name
    THEN CHOOSE i \in 1..Len(keyword_tools) :
             /\ keyword_tools[i].name = name
             /\ \A j \in 1..(i - 1) : keyword_tools[j].name # name
    ELSE 0

\* the result is the `limit` best of the merged names by the score the
\* function `score` gives a name, in descending order
BestOfMerged(score) ==
    LET t == lastCall.result.tools
        returned == {t[k].tool_name : k \in 1..Len(t)}
    IN  /\ Len(t) = Min(lastCall.limit, Cardinality(MergedNames))
        /\ returned \subseteq MergedNames
        /\ \A k \in 1..Len(t) : t[k].final_score = score[t[k].tool_name]
        /\ \A i, j \in 1..Len(t) : i < j => RLeq(t[j].final_score, t[i].final_score)
        /\ \A name \in MergedNames \ returned : \A k \in 1..Len(t) :
              RLeq(score[name], t[k].final_score)

\* C24 as stated: the final_score of a result tool of hybrid_search is
\* semantic_weight * (1 - i/Ns) * (semantic final_score) for its position i in
\* the semantic list plus (1 - semantic_weight) * (1 - j/Nk) for its position
\* j in the lexical list, a list that does not hold the tool adding nothing;
\* the merged tools are sorted descending and cut to limit.
C24_AsStated ==
    HybridReturned =>
        BestOfMerged([name \in MergedNames |->
                         RAdd(SemanticTerm(name),
                              KeywordTerm(FirstPos(lastCall.keyword, name)))])

\* C24 amended: as C24, with the position of a tool in the lexical list being
\* the position of its last occurrence there (its only position in a list
\* without repetitions).
C24_HybridScore ==
    HybridReturned =>
        BestOfMerged([name \in MergedNames |->
                         RAdd(SemanticTerm(name),
                              KeywordTerm(LastPos(lastCall.keyword, name)))])

\* hybrid_search with weight 1/2 merged more names than `limit`; the result
\* holds a tool of both lists that is not the first of the lexical list, and
\* a tool only the lexical list has
C24_Witness ==
    /\ HybridReturned /\ lastCall.semantic_weight = Rat(1, 2)
    /\ Cardinality(MergedNames) > lastCall.limit
    /\ \E k \in 1..Len(lastCall.result.tools) :
          LET name == lastCall.result.tools[k].tool_name
          IN  /\ PosOf(lastCall.semantic, name) # 0
              /\ LastPos(lastCall.keyword, name) > 1
              /\ RLess(Zero, SemanticTerm(name))
    /\ \E k \in 1..Len(lastCall.result.tools) :
          LET name == lastCall.result.tools[k].tool_name
          IN  PosOf(lastCall.semantic, name) = 0 /\ LastPos(lastCall.keyword, name) # 0


----------------------------------------------------------------------------
(* Claims on _context_aware_search *)

\* _context_aware_search has run on a result of semantic_search
ContextAnswered == pc = "rerank_results" /\ ~produced.raised

\* the servers of a list of candidates
ServersOf(tools) == {tools[i].server_name : i \in 1..Len(tools)}

RECURSIVE ServerSum(_, _)
\* the sum of the context_score of the candidates of one server
ServerSum(tools, server) ==
    IF tools = <<>> THEN Zero
    ELSE RAdd(IF tools[1].server_name = server THEN tools[1].context_score ELSE Zero,
              ServerSum(Tail(tools), server))

\* the number of candidates of one server
ServerCount(tools, server) ==
    Cardinality({i \in 1..Len(tools) : tools[i].server_name = server})

\* C25: in context_aware mode, when the (at most limit * 2) candidates of the
\* semantic ranking are of more than one server, the recommended server is one
\* of the highest sum of context_score over its candidates; the tools handed
\* on are the first `limit` candidates of the semantic ranking, in its order.
C25_RecommendBySum ==
    ContextAnswered =>
        LET c == produced.retrieved
            rec == st.reasoning.recommendation
        IN  /\ Len(c) <= st.limit * 2
            /\ produced.candidates = [i \in 1..Min(st.limit, Len(c)) |-> c[i]]
            /\ Cardinality(ServersOf(c)) > 1 =>
                  /\ rec \in ServersOf(c)
                  /\ \A s \in ServersOf(c) : RLeq(ServerSum(c, s), ServerSum(c, rec))

\* the node recommended a server whose average context_score is lower than
\* that of another server, and handed on `limit` of more candidates, tools of
\* one server standing on both sides of a tool of another
C25_Witness ==
    /\ ContextAnswered
    /\ Len(produced.retrieved) > st.limit
    /\ LET c == produced.retrieved
           rec == st.reasoning.recommendation
       IN  /\ rec # ""
           /\ \E s \in ServersOf(c) :
                 RLess(RMul(ServerSum(c, rec), Rat(1, ServerCount(c, rec))),
                       RMul(ServerSum(c, s), Rat(1, ServerCount(c, s))))
    /\ \E i, j, k \in 1..Len(produced.candidates) :
          /\ i < j /\ j < k
          /\ produced.candidates[i].server_name = produced.candidates[k].server_name
          /\ produced.candidates[i].server_name # produced.candidates[j].server_name

\* C29: in context_aware mode, a response whose reasoning recommends a server
\* holds at least one tool of that server.
C29_RecommendedServerReturned ==
    (pc = "returned" /\ response.mode = "context_aware"
     /\ response.reasoning.kind = "Context" /\ response.reasoning.recommendation # "") =>
        \E k \in 1..Len(response.tools) :
            response.tools[k].server_name = response.reasoning.recommendation


----------------------------------------------------------------------------
(* Claims on hybrid_search: merging and the failure of the keyword search *)

\* C28: the list hybrid_search returns holds each tool_name at most once, also
\* when a tool is in both lists or several times in the lexical list.
C28_NamesUnique ==
    HybridReturned =>
        \A i, j \in 1..Len(lastCall.result.tools) :
            i # j => lastCall.result.tools[i].tool_name # lastCall.result.tools[j].tool_name

\* hybrid_search returned a tool of both lists and a tool the lexical list
\* names twice
C28_Witness ==
    /\ HybridReturned
    /\ \E k \in 1..Len(lastCall.result.tools) :
          LET name == lastCall.result.tools[k].tool_name
          IN  PosOf(lastCall.semantic, name) # 0 /\ LastPos(lastCall.keyword, name) # 0
    /\ \E k \in 1..Len(lastCall.result.tools) :
          LET name == lastCall.result.tools[k].tool_name
          IN  /\ FirstPos(lastCall.keyword, name) # 0
              /\ FirstPos(lastCall.keyword, name) # LastPos(lastCall.keyword, name)

\* C30: when the call of the lexical collaborator fails, hybrid_search does
\* not raise and the workflow records no error: the result is the semantic
\* list in its order, the tool at 0-based position i of the Ns tools having
\* final_score = semantic_weight * (1 - i/Ns) * (its semantic final_score).
C30_KeywordFailureIgnored ==
    /\ (lastCall.op = "hybrid_search" /\ lastCall.keyword_failed) =>
          LET t == lastCall.result.tools
              sem == lastCall.semantic
          IN  /\ ~lastCall.raised
              /\ Len(t) = Len(sem)
              /\ lastCall.result.total = Len(sem)
              /\ \A i \in 1..Len(sem) :
                    /\ t[i].tool_name = sem[i].tool_name
                    /\ t[i].server_name = sem[i].server_name
                    /\ t[i].final_score =
                           RMul(lastCall.semantic_weight,
                                RMul(RSub(One, Rat(i - 1, Len(sem))), sem[i].final_score))
    /\ (pc \in AfterRetrieval /\ produced.keyword_failed) =>
          /\ ~produced.raised
          /\ st.error = NoError
          /\ Len(st.candidates) = Len(produced.retrieved)

\* the keyword search failed in a direct call whose semantic list holds two
\* tools of unequal final_score
C30_Witness ==
    /\ lastCall.op = "hybrid_search" /\ lastCall.keyword_failed
    /\ lastCall.semantic_weight = Rat(1, 2)
    /\ Len(lastCall.semantic) >= 2
    /\ lastCall.semantic[1].final_score # lastCall.semantic[2].final_score
    /\ RLess(Zero, lastCall.result.tools[2].final_score)


----------------------------------------------------------------------------
(* Claims on MCPAgentGraph *)

\* C26: the analyze_request node does not lose the target server: a
\* target_server that is set when the run starts (the server_name of the
\* caller) has the same value after _analyze_request and in the later nodes.
C26_TargetServerKept ==
    (agentInput.server_name # None /\ nodesRun # <<>>) =>
        agentState.target_server = agentInput.server_name

\* C27: execute_fixes runs only when suggest_fixes produced at least one fix
\* and either no fix requires approval or approval_granted held on leaving
\* await_approval; with no suggested fix the workflow goes from suggest_fixes
\* straight to report; fixes that require approval are never executed
\* without approval.
C27_ApprovalGuardsExecution ==
    LET fixes == agentState.suggested_fixes
        needs == \E i \in 1..Len(fixes) : fixes[i].requires_approval
        after(i) == IF i < Len(nodesRun) THEN nodesRun[i + 1] ELSE node
    IN  /\ \A i \in 1..Len(nodesRun) :
              nodesRun[i] = "execute_fixes" =>
                  /\ fixes # <<>>
                  /\ \/ ~needs /\ i > 1 /\ nodesRun[i - 1] = "suggest_fixes"
                     \/ /\ i > 1 /\ nodesRun[i - 1] = "await_approval"
                        /\ agentState.approval_granted
                  /\ needs => agentState.approval_granted
        /\ \A i \in 1..Len(nodesRun) :
              (nodesRun[i] = "suggest_fixes" /\ fixes = <<>> /\ after(i) # "raised") =>
                  after(i) = "report"
        /\ node = "execute_fixes" =>
              /\ fixes # <<>>
              /\ needs => agentState.approval_granted

\* a run executed two fixes none of which requires approval, and reported
C27_Witness ==
    /\ node = "END"
    /\ \E i \in 1..Len(nodesRun) : nodesRun[i] = "execute_fixes"
    /\ Len(agentState.suggested_fixes) = 2
    /\ ~agentState.requires_approval
    /\ agentState.completed

============================================================================
